---- MODULE Spec2Model ----
(***************************************************************************)
(* The launch-plan engine of the Moxie launch assistant                    *)
(* (utils/plan_generator.py) and the calls streamlit_app.py makes to it.   *)
(*                                                                         *)
(* Three specifications share the state and the statements of              *)
(* generate_launch_plan: Spec calls the engine's functions on their own,   *)
(* SpecTwo interleaves two calls of generate_launch_plan, SpecWizard runs  *)
(* the session of streamlit_app.py from step 1 to the results page.        *)
(*                                                                         *)
(* Strings are TLA+ strings with Python's text.  The emoji that prefix the *)
(* wizard's option labels cannot be written in a TLA+ string and are       *)
(* spelled by name between colons (":rocket:"); no such name contains one  *)
(* of the marker substrings the engine looks for.                          *)
(***************************************************************************)
EXTENDS Integers, Sequences, FiniteSets, TLC

\* ------------------------------------------------------------------------
\* Python values.  external_strategies is whatever json.load returned, so a
\* value carries its Python type: t is "None", "dict", "list" or "str".
\* ------------------------------------------------------------------------
PyNone == [t |-> "None", v |-> <<>>]

PyDict(f) == [t |-> "dict", v |-> f]

PyList(s) == [t |-> "list", v |-> s]

PyStr(s) == [t |-> "str", v |-> s]

\* A local variable that has not been assigned yet.
Unset == [t |-> "unset", v |-> <<>>]

\* bool(obj): None, {}, [] and "" are false, everything else is true.
Truthy(obj) ==
   CASE obj.t = "None" -> FALSE
     [] obj.t = "dict" -> DOMAIN obj.v /= {}
     [] obj.t = "list" -> Len(obj.v) > 0
     [] obj.t = "str" -> obj.v /= ""
     [] OTHER -> FALSE

\* key in obj, for a dict obj and a str key.
HasKey(obj, key) == obj.t = "dict" /\ key \in DOMAIN obj.v

\* The outcome of evaluating an expression: its value, or the exception.
Value(x) == [exc |-> "none", value |-> x]

Raised(e) == [exc |-> e, value |-> PyNone]

\* obj[key] for a str key: the entry of a dict, KeyError when the dict has no
\* such key, and TypeError when obj is a list, a str or None (a list or str
\* index must be an integer, None is not subscriptable).
Subscript(obj, key) ==
   IF obj.t = "dict"
   THEN IF key \in DOMAIN obj.v THEN Value(obj.v[key]) ELSE Raised("KeyError")
   ELSE Raised("TypeError")

\* table[k1][k2][k3], evaluated left to right; the first exception ends it.
Subscript3(table, k1, k2, k3) ==
   LET r1 == Subscript(table, k1)
       r2 == IF r1.exc = "none" THEN Subscript(r1.value, k2) ELSE r1
   IN  IF r2.exc = "none" THEN Subscript(r2.value, k3) ELSE r2

\* Mutant of Contains: the label is compared for equality with the marker.
Contains_Exact(text, marker) == text = marker

\* marker in text, for two str: text has marker as a substring.
Contains(text, marker) ==
   \E i \in 1..(Len(text) - Len(marker) + 1) :
      SubSeq(text, i, i + Len(marker) - 1) = marker

\* ------------------------------------------------------------------------
\* The tables of utils/plan_generator.py.
\* ------------------------------------------------------------------------
\* basic_milestones: the milestones that apply to all launches.
basic_milestones ==
   << 
      [name |-> "Messaging Validation",
       description |-> "Complete customer interviews and finalize messaging",
       timeframe |-> "4 weeks before launch"],
      [name |-> "Content Creation Deadline",
       description |-> "Finalize all launch content and materials",
       timeframe |-> "2 weeks before launch"],
      [name |-> "Launch Day",
       description |-> "Official launch date",
       timeframe |-> "Launch day"],
      [name |-> "Post-Launch Analysis",
       description |-> "Analyze launch metrics and gather feedback",
       timeframe |-> "1 week after launch"] >>

\* type_specific_milestones of the branch "New Startup/Product Launch".
NewStartupMilestones ==
   << 
      [name |-> "Beta Testing",
       description |-> "Complete beta testing with early users",
       timeframe |-> "3 weeks before launch"],
      [name |-> "Product Finalization",
       description |-> "Freeze features and finalize product",
       timeframe |-> "2 weeks before launch"] >>

\* type_specific_milestones of the branch "Brand Repositioning".
BrandRepositioningMilestones ==
   << 
      [name |-> "Brand Assets Complete",
       description |-> "Finalize all new brand assets and guidelines",
       timeframe |-> "3 weeks before launch"],
      [name |-> "Team Alignment",
       description |-> "Ensure team is aligned on new positioning",
       timeframe |-> "2 weeks before launch"] >>

\* type_specific_milestones of the branch "Funding Announcement".
FundingAnnouncementMilestones ==
   << 
      [name |-> "Press Release Draft",
       description |-> "Create first draft of funding press release",
       timeframe |-> "3 weeks before launch"],
      [name |-> "Investor Coordination",
       description |-> "Finalize coordination with investors on announcement",
       timeframe |-> "2 weeks before launch"] >>

\* type_specific_milestones of the branch "Partnership".
PartnershipMilestones ==
   << 
      [name |-> "Partnership Agreement",
       description |-> "Finalize all partnership terms and agreements",
       timeframe |-> "3 weeks before launch"],
      [name |-> "Joint Marketing Plan",
       description |-> "Finalize joint marketing plan with partner",
       timeframe |-> "2 weeks before launch"] >>

\* funding_specific_milestones of the branch "Bootstrapping".
BootstrappingMilestones ==
   << 
      [name |-> "Resource Allocation",
       description |-> "Finalize budget and resource allocation for launch",
       timeframe |-> "3 weeks before launch"] >>

\* funding_specific_milestones of the branch "under $1M".
UnderOneMillionMilestones ==
   << 
      [name |-> "Growth Metrics Setup",
       description |-> "Set up tracking for key growth metrics",
       timeframe |-> "2 weeks before launch"] >>

\* funding_specific_milestones of the branch "$1M-$3M".
OneToThreeMillionMilestones ==
   << 
      [name |-> "PR Firm Briefing",
       description |-> "Brief PR firm on launch strategy and timeline",
       timeframe |-> "4 weeks before launch"],
      [name |-> "Media Outreach",
       description |-> "Begin outreach to media contacts",
       timeframe |-> "2 weeks before launch"] >>

\* funding_specific_milestones of the branch "$3M+".
ThreeMillionPlusMilestones ==
   << 
      [name |-> "Marketing Campaign Launch",
       description |-> "Launch pre-launch marketing campaign",
       timeframe |-> "4 weeks before launch"],
      [name |-> "Industry Event Planning",
       description |-> "Finalize plans for launch event",
       timeframe |-> "3 weeks before launch"] >>

\* strategies: the hardcoded table of get_standard_strategies,
\* launch type -> funding status -> primary goal -> list of strategies.
strategies ==
   PyDict(
      "New Startup/Product Launch" :>
         PyDict(
            "Bootstrapping (No external funding)" :>
               PyDict(
                  "Get Users or Customers" :>
                     PyList(<< "Focus on founder-led storytelling through guest podcasts and social content",
                               "Create a limited beta program with exclusive perks to drive early adoption",
                               "Build direct relationships with early users for feedback and testimonials" >>) @@
                  "Attract Investors" :>
                     PyList(<< "Document your traction journey publicly to showcase momentum",
                               "Create case studies showing early customer impact",
                               "Target niche industry events where investors in your space gather" >>) @@
                  "Build Press & Awareness" :>
                     PyList(<< "Craft a compelling founder story that ties to current trends",
                               "Pitch to industry-specific publications rather than mainstream media",
                               "Create shareable content that showcases your unique approach" >>) @@
                  "Create Industry Influence" :>
                     PyList(<< "Start a focused content series solving key problems in your industry",
                               "Join relevant communities as a contributor, not just a promoter",
                               "Collaborate with complementary startups for wider reach" >>)) @@
            "Raised under $1M" :>
               PyDict(
                  "Get Users or Customers" :>
                     PyList(<< "Run targeted ad experiments to identify high-converting messages",
                               "Create an exclusive waitlist with referral incentives",
                               "Partner with complementary products for shared launches" >>) @@
                  "Attract Investors" :>
                     PyList(<< "Build a data-driven pitch showing early traction metrics",
                               "Create investor-specific content demonstrating market understanding",
                               "Get warm introductions through strategic advisory relationships" >>) @@
                  "Build Press & Awareness" :>
                     PyList(<< "Position your funding as validation for a larger trend story",
                               "Create data-driven content that journalists can easily reference",
                               "Build relationships with 3-5 key reporters in your space" >>) @@
                  "Create Industry Influence" :>
                     PyList(<< "Participate in industry panels and speaking opportunities",
                               "Launch a small but high-quality thought leadership publication",
                               "Create a community initiative that positions you as a connector" >>)) @@
            "Raised $1M-$3M" :>
               PyDict(
                  "Get Users or Customers" :>
                     PyList(<< "Scale successful acquisition channels with increased ad spend",
                               "Implement a full-featured referral program with tiered rewards",
                               "Execute co-marketing campaigns with established partners" >>) @@
                  "Attract Investors" :>
                     PyList(<< "Create quarterly investor updates showcasing growth metrics",
                               "Secure strategic advisors who can connect you to your next round",
                               "Generate press coverage highlighting your unique market position" >>) @@
                  "Build Press & Awareness" :>
                     PyList(<< "Hire a specialized PR firm for a coordinated media campaign",
                               "Create a newsworthy data report about your industry",
                               "Launch a creative campaign designed for social sharing" >>) @@
                  "Create Industry Influence" :>
                     PyList(<< "Host industry roundtables with key decision-makers",
                               "Launch an authoritative content platform or podcast",
                               "Create an industry index or report that becomes a reference point" >>)) @@
            "Raised $3M+" :>
               PyDict(
                  "Get Users or Customers" :>
                     PyList(<< "Implement omnichannel marketing with consistent brand messaging",
                               "Launch high-production value content series",
                               "Execute high-visibility partnerships with market leaders" >>) @@
                  "Attract Investors" :>
                     PyList(<< "Position your company as category-defining through thought leadership",
                               "Host exclusive investor-focused events showcasing your vision",
                               "Generate tier-one press coverage highlighting growth metrics" >>) @@
                  "Build Press & Awareness" :>
                     PyList(<< "Execute a comprehensive PR strategy across multiple channels",
                               "Create viral-optimized content campaigns with significant budget",
                               "Sponsor or create signature industry events" >>) @@
                  "Create Industry Influence" :>
                     PyList(<< "Position your CEO as an industry visionary through speaking and publishing",
                               "Create a proprietary methodology or framework for your industry",
                               "Launch a foundation or initiative addressing industry-wide challenges" >>))) @@
      "Brand Repositioning (Rebrand or Pivot)" :>
         PyDict(
            "Bootstrapping (No external funding)" :>
               PyDict(
                  "Get Users or Customers" :>
                     PyList(<< "Craft a clear narrative explaining the 'why' behind your repositioning",
                               "Create before/after content showing the evolution",
                               "Personally reach out to existing customers with special loyalty offers" >>) @@
                  "Attract Investors" :>
                     PyList(<< "Frame your repositioning as strategic market adaptation",
                               "Show early validation metrics from the new direction",
                               "Create case studies showing the problem your new positioning solves" >>) @@
                  "Build Press & Awareness" :>
                     PyList(<< "Pitch your pivot as a response to market insights",
                               "Create visual assets that tell your transformation story",
                               "Leverage customer testimonials to validate the change" >>) @@
                  "Create Industry Influence" :>
                     PyList(<< "Document your repositioning journey as a learning resource",
                               "Position the change as thought leadership on where the market is headed",
                               "Host discussions around the challenges your new position addresses" >>))) @@
      "Funding Announcement" :>
         PyDict(
            "Raised under $1M" :>
               PyDict(
                  "Get Users or Customers" :>
                     PyList(<< "Frame your funding as validation of your customer-first approach",
                               "Create special offers for customers who join during your funding momentum",
                               "Use funding press to drive traffic to high-converting landing pages" >>) @@
                  "Attract Investors" :>
                     PyList(<< "Position this round as the foundation for a bigger vision",
                               "Create investor-specific content showcasing your capital efficiency",
                               "Document key milestones achieved with minimal funding" >>) @@
                  "Build Press & Awareness" :>
                     PyList(<< "Craft a funding announcement that tells a larger market story",
                               "Secure quotes from investors explaining why they invested",
                               "Create a funding FAQ addressing common questions" >>) @@
                  "Create Industry Influence" :>
                     PyList(<< "Share insights about your fundraising process to help other founders",
                               "Host a small event bringing together investors and industry peers",
                               "Launch a thought leadership piece about your industry's funding landscape" >>))) @@
      "Major Partnership or Publicity Push" :>
         PyDict(
            "Bootstrapping (No external funding)" :>
               PyDict(
                  "Get Users or Customers" :>
                     PyList(<< "Design partnership terms that prioritize customer acquisition",
                               "Create exclusive offers for your partner's audience",
                               "Focus on partners with highly engaged audiences rather than size" >>) @@
                  "Attract Investors" :>
                     PyList(<< "Structure partnerships that demonstrate market validation",
                               "Secure case studies from partners highlighting your value",
                               "Use partnerships to generate data points for investor pitches" >>) @@
                  "Build Press & Awareness" :>
                     PyList(<< "Create joint press releases with compelling narrative hooks",
                               "Design visual content that both partners can share",
                               "Host a joint webinar or event to showcase the partnership" >>) @@
                  "Create Industry Influence" :>
                     PyList(<< "Co-create thought leadership content with your partner",
                               "Launch a joint research initiative or industry report",
                               "Create a partner advisory board for ongoing collaboration" >>))))

\* The list get_standard_strategies returns when the combination is in no table.
DefaultStrategies ==
   PyList(<< "Create a compelling story that connects your mission to customer needs",
             "Focus on 1-2 high-impact marketing channels that align with your resources",
             "Build relationships with influencers and partners in your industry" >>)

\* next_steps: the hardcoded table of get_standard_next_steps,
\* funding status -> audience readiness -> post-launch priority -> list of steps.
next_steps_table ==
   PyDict(
      "Bootstrapping (No external funding)" :>
         PyDict(
            "Yes, we have an engaged community" :>
               PyDict(
                  "Scaling & repeatable traction" :>
                     PyList(<< "1. Analyze which launch channels delivered highest ROI",
                               "2. Document repeatable processes for your best-performing channels",
                               "3. Create a lean content calendar focused on high-conversion topics" >>) @@
                  "Investor relations & positioning for next raise" :>
                     PyList(<< "1. Build a simple investor update template highlighting key metrics",
                               "2. Identify 10-15 potential angels or micro-VCs aligned with your vision",
                               "3. Create a basic pitch deck focused on traction and capital efficiency" >>) @@
                  "Optimizing based on customer feedback" :>
                     PyList(<< "1. Implement a simple feedback collection system",
                               "2. Identify the top 3 points of friction in your current experience",
                               "3. Create a weekly iteration schedule focused on quick wins" >>) @@
                  "Sustaining press & industry visibility" :>
                     PyList(<< "1. Develop a simple PR calendar with monthly goals",
                               "2. Create a content repurposing system to maximize reach",
                               "3. Join 3-5 communities where your audience gathers" >>))))

\* The list get_standard_next_steps returns when the combination is in no table.
DefaultNextSteps ==
   PyList(<< "1. Document what worked and what didn't in your launch",
             "2. Focus on optimizing your best-performing channel",
             "3. Create a 30-day action plan based on initial results" >>)

\* ------------------------------------------------------------------------
\* generate_milestone_suggestions
\* ------------------------------------------------------------------------
\* The if/elif chain over the launch type: the markers in the order they are
\* tested, each with the milestones its branch assigns.
LaunchTypeRules ==
   << [marker |-> "New Startup/Product Launch", milestones |-> NewStartupMilestones],
      [marker |-> "Brand Repositioning", milestones |-> BrandRepositioningMilestones],
      [marker |-> "Funding Announcement", milestones |-> FundingAnnouncementMilestones],
      [marker |-> "Partnership", milestones |-> PartnershipMilestones] >>

\* The if/elif chain over the funding status.
FundingStatusRules ==
   << [marker |-> "Bootstrapping", milestones |-> BootstrappingMilestones],
      [marker |-> "under $1M", milestones |-> UnderOneMillionMilestones],
      [marker |-> "$1M-$3M", milestones |-> OneToThreeMillionMilestones],
      [marker |-> "$3M+", milestones |-> ThreeMillionPlusMilestones] >>

\* Mutant of FirstBranch: the chain is written with independent ifs, so the
\* branch of the last marker the text contains overwrites the earlier ones.
FirstBranch_LastWins(rules, text) ==
   LET hits == { i \in DOMAIN rules : Contains(text, rules[i].marker) }
   IN  IF hits = {} THEN << >>
       ELSE rules[CHOOSE i \in hits : \A j \in hits : i >= j].milestones

\* x = []; if m1 in text: x = ... elif m2 in text: x = ... : the branch of the
\* first marker the text contains, the empty list when it contains none.
FirstBranch(rules, text) ==
   LET hits == { i \in DOMAIN rules : Contains(text, rules[i].marker) }
   IN  IF hits = {} THEN << >>
       ELSE rules[CHOOSE i \in hits : \A j \in hits : i <= j].milestones

type_specific_milestones(launch_type) == FirstBranch(LaunchTypeRules, launch_type)

funding_specific_milestones(funding_status) == FirstBranch(FundingStatusRules, funding_status)

\* Mutant of generate_milestone_suggestions: the specific milestones are put
\* where their timeframe belongs, before launch day.
generate_milestone_suggestions_Chronological(launch_type, funding_status) ==
   SubSeq(basic_milestones, 1, 2) \o type_specific_milestones(launch_type)
      \o funding_specific_milestones(funding_status) \o SubSeq(basic_milestones, 3, 4)

\* Mutant of generate_milestone_suggestions: an entry whose timeframe an
\* earlier entry already has is dropped.
generate_milestone_suggestions_Dedup(launch_type, funding_status) ==
   LET all == basic_milestones \o type_specific_milestones(launch_type)
                               \o funding_specific_milestones(funding_status)
       kept[i \in 0..Len(all)] ==
          IF i = 0 THEN << >>
          ELSE IF \E j \in 1..Len(kept[i - 1]) : kept[i - 1][j].timeframe = all[i].timeframe
               THEN kept[i - 1]
               ELSE Append(kept[i - 1], all[i])
   IN  kept[Len(all)]

generate_milestone_suggestions(launch_type, funding_status) ==
   basic_milestones \o type_specific_milestones(launch_type)
                    \o funding_specific_milestones(funding_status)

\* Mutant of ExternalLookup: the external data is consulted only when it holds
\* both keys, so the absence of one disables the override under the other.
ExternalLookup_BothKeys(external_strategies, top, k1, k2, k3) ==
   IF /\ Truthy(external_strategies)
      /\ HasKey(external_strategies, "launch_strategies")
      /\ HasKey(external_strategies, "next_steps")
   THEN Subscript3(external_strategies.v[top], k1, k2, k3)
   ELSE Raised("skipped")

\* ------------------------------------------------------------------------
\* get_standard_strategies and get_standard_next_steps
\* ------------------------------------------------------------------------
\* The lookup in the external data, taken when external_strategies is truthy
\* and has the key: the leaf, or the exception of the subscript chain.  When
\* the guard is false the lookup is not made ("skipped").
ExternalLookup(external_strategies, top, k1, k2, k3) ==
   IF Truthy(external_strategies) /\ HasKey(external_strategies, top)
   THEN Subscript3(external_strategies.v[top], k1, k2, k3)
   ELSE Raised("skipped")

\* Mutant of HardcodedLookup: partial-path matching.  When the first key is in
\* the table and the second is not, an entry of that first key is used.
HardcodedLookup_PartialPath(table, default, k1, k2, k3) ==
   LET k2x == IF HasKey(table, k1) /\ ~HasKey(table.v[k1], k2)
              THEN CHOOSE k \in DOMAIN table.v[k1].v : TRUE
              ELSE k2
       r == Subscript3(table, k1, k2x, k3)
   IN  IF r.exc = "KeyError" THEN Value(default) ELSE r

\* try: return table[k1][k2][k3]   except KeyError: return default
HardcodedLookup(table, default, k1, k2, k3) ==
   LET r == Subscript3(table, k1, k2, k3)
   IN  IF r.exc = "KeyError" THEN Value(default) ELSE r

\* Mutant of get_standard_strategies: the hardcoded table is consulted before
\* the external data.
get_standard_strategies_HardcodedFirst(launch_type, funding_status, primary_goal, external_strategies) ==
   LET h == Subscript3(strategies, launch_type, funding_status, primary_goal)
       e == ExternalLookup(external_strategies, "launch_strategies",
                           launch_type, funding_status, primary_goal)
   IN  IF h.exc = "none" THEN h
       ELSE IF e.exc \in {"skipped", "KeyError"} THEN Value(DefaultStrategies)
       ELSE e

\* Mutant of get_standard_strategies: the except branch of the external
\* lookup returns the default list instead of falling through.
get_standard_strategies_SkipHardcoded(launch_type, funding_status, primary_goal, external_strategies) ==
   LET e == ExternalLookup(external_strategies, "launch_strategies",
                           launch_type, funding_status, primary_goal)
   IN  IF e.exc = "skipped"
       THEN HardcodedLookup(strategies, DefaultStrategies,
                            launch_type, funding_status, primary_goal)
       ELSE IF e.exc = "KeyError" THEN Value(DefaultStrategies)
       ELSE e

\* External data first; its KeyError is caught and falls through to the
\* hardcoded table, any other exception leaves the function.
get_standard_strategies(launch_type, funding_status, primary_goal, external_strategies) ==
   LET e == ExternalLookup(external_strategies, "launch_strategies",
                           launch_type, funding_status, primary_goal)
   IN  IF e.exc \in {"skipped", "KeyError"}
       THEN HardcodedLookup(strategies, DefaultStrategies,
                            launch_type, funding_status, primary_goal)
       ELSE e

get_standard_next_steps(funding_status, audience_readiness, post_launch_priority, external_strategies) ==
   LET e == ExternalLookup(external_strategies, "next_steps",
                           funding_status, audience_readiness, post_launch_priority)
   IN  IF e.exc \in {"skipped", "KeyError"}
       THEN HardcodedLookup(next_steps_table, DefaultNextSteps,
                            funding_status, audience_readiness, post_launch_priority)
       ELSE e

\* ------------------------------------------------------------------------
\* The AI collaborator (utils/ai_generator.py).  One invocation ends in one
\* of these ways; "ok" is a well-formed, non-empty result of the expected
\* shape, every other kind is a failure.
\* ------------------------------------------------------------------------
AiFailureKinds == {"raises", "times out", "unavailable", "empty", "malformed"}

\* The longest list the collaborator answers with.
MaxAiItems == 2

AiItem(i) == IF i = 1 THEN "AI: lead with one sharp customer story"
                      ELSE "AI: pick a second channel only after the first converts"

\* The well-formed answers to a request for a list: 1..MaxAiItems items.
AiListResults == { PyList([i \in 1..n |-> AiItem(i)]) : n \in 1..MaxAiItems }

AiTextResults == { "AI: your messaging is validated, now sharpen the headline" }

AiListOutcomes ==
   { [kind |-> "ok", value |-> r] : r \in AiListResults }
   \cup { [kind |-> k, value |-> PyNone] : k \in AiFailureKinds }

AiTextOutcomes ==
   { [kind |-> "ok", value |-> r] : r \in AiTextResults }
   \cup { [kind |-> k, value |-> ""] : k \in AiFailureKinds }

\* The canned sentence generate_ai_messaging_advice falls back to, keyed by
\* messaging_tested.
CannedMessagingAdvice(messaging_tested) == "Messaging advice for: " \o messaging_tested

\* The collaborator's answer when it is well-formed, the canned sentence
\* otherwise.
generate_ai_messaging_advice(messaging_tested, outcome) ==
   IF outcome.kind = "ok" THEN outcome.value
   ELSE CannedMessagingAdvice(messaging_tested)

\* The collaborator's answer when it is well-formed, the fallback unchanged
\* otherwise.
generate_ai_strategies(form, fallback_strategies, outcome) ==
   IF outcome.kind = "ok" THEN outcome.value ELSE fallback_strategies

generate_ai_next_steps(form, fallback_steps, outcome) ==
   IF outcome.kind = "ok" THEN outcome.value ELSE fallback_steps

\* ------------------------------------------------------------------------
\* Inputs: the option labels of the wizard (streamlit_app.py, steps 2 to 7),
\* the key labels of the hardcoded tables, and labels outside both.
\* ------------------------------------------------------------------------
MessagingOptions ==
   { ":check: Yes, I've gotten direct feedback on my messaging",
     ":thinking: Sort of... I've talked to people, but nothing structured",
     ":cross: No, I haven't tested it yet" }

LaunchTypeOptions ==
   { ":rocket: New Startup/Product Launch",
     ":repeat: Brand Repositioning (Rebrand or Pivot)",
     ":moneybag: Funding Announcement",
     ":loudspeaker: Major Partnership or Publicity Push" }

FundingStatusOptions ==
   { ":rocket: Bootstrapping (No external funding, self-funded)",
     ":seedling: Raised under $1M (Likely still raising, early-stage)",
     ":chart: Raised $1M-$3M (Have 12-18 months of runway)",
     ":trophy: Raised $3M+ (Series A+; established growth strategy)" }

PrimaryGoalOptions ==
   { ":rocket: Get Users or Customers",
     ":moneybag: Attract Investors",
     ":microphone: Build Press & Awareness",
     ":globe: Create Industry Influence" }

AudienceReadinessOptions ==
   { ":check: Yes, we have an engaged community",
     ":zap: We have a small following but need more traction",
     ":cross: No, we're starting from scratch" }

PostLaunchPriorityOptions ==
   { ":chart: Scaling & repeatable traction (growth systems)",
     ":moneybag: Investor relations & positioning for next raise",
     ":tools: Optimizing based on customer feedback",
     ":fire: Sustaining press & industry visibility" }

\* The keys of the hardcoded tables, level by level.
LaunchTypeKeys == DOMAIN strategies.v

FundingStatusKeys == UNION { DOMAIN strategies.v[lt].v : lt \in LaunchTypeKeys }

PrimaryGoalKeys ==
   UNION { UNION { DOMAIN strategies.v[lt].v[fs].v : fs \in DOMAIN strategies.v[lt].v } :
              lt \in LaunchTypeKeys }

AudienceReadinessKeys ==
   UNION { DOMAIN next_steps_table.v[fs].v : fs \in DOMAIN next_steps_table.v }

PostLaunchPriorityKeys ==
   UNION { UNION { DOMAIN next_steps_table.v[fs].v[ar].v : ar \in DOMAIN next_steps_table.v[fs].v } :
              fs \in DOMAIN next_steps_table.v }

\* Labels that are neither an option of the wizard nor a key of a table: one
\* without any marker substring, one with two of them.
OtherLaunchTypes == { "Community Event", "Partnership & Funding Announcement" }

OtherFundingStatuses == { "Grant funded", "Raised $3M+ after Bootstrapping" }

LaunchTypes == LaunchTypeKeys \cup LaunchTypeOptions \cup OtherLaunchTypes

FundingStatuses == FundingStatusKeys \cup FundingStatusOptions \cup OtherFundingStatuses

PrimaryGoals == PrimaryGoalKeys \cup PrimaryGoalOptions

AudienceReadinesses == AudienceReadinessKeys \cup AudienceReadinessOptions

PostLaunchPriorities == PostLaunchPriorityKeys \cup PostLaunchPriorityOptions

\* ------------------------------------------------------------------------
\* Values of external_strategies: what load_strategies returns, None or the
\* content of data/strategies.json.
\* ------------------------------------------------------------------------
EmptyDict == PyDict([k \in {} |-> PyNone])

\* A launch_strategies table: it overrides one entry of the hardcoded table,
\* adds one the hardcoded table lacks and one under the wizard's labels.
ExtLaunchStrategies ==
   PyDict(
      "New Startup/Product Launch" :> PyDict(
         "Bootstrapping (No external funding)" :> PyDict(
            "Get Users or Customers" :>
               PyList(<< "EXT: run a founder AMA", "EXT: open a waitlist" >>))) @@
      "Brand Repositioning (Rebrand or Pivot)" :> PyDict(
         "Raised $3M+" :> PyDict(
            "Attract Investors" :> PyList(<< "EXT: brief your lead investor first" >>))) @@
      ":rocket: New Startup/Product Launch" :> PyDict(
         ":rocket: Bootstrapping (No external funding, self-funded)" :> PyDict(
            ":rocket: Get Users or Customers" :>
               PyList(<< "EXT: ship a public roadmap" >>))))

ExtNextSteps ==
   PyDict(
      "Bootstrapping (No external funding)" :> PyDict(
         "Yes, we have an engaged community" :> PyDict(
            "Scaling & repeatable traction" :>
               PyList(<< "EXT 1. Double down on referrals" >>))) @@
      "Raised $3M+" :> PyDict(
         ":cross: No, we're starting from scratch" :> PyDict(
            ":fire: Sustaining press & industry visibility" :>
               PyList(<< "EXT 1. Hire a PR lead", "EXT 2. Plan a launch tour" >>))))

\* Both keys present, each a partial three-level table.
ExtBoth == PyDict("launch_strategies" :> ExtLaunchStrategies @@ "next_steps" :> ExtNextSteps)

ExtOnlyLaunchStrategies == PyDict("launch_strategies" :> ExtLaunchStrategies)

ExtOnlyNextSteps == PyDict("next_steps" :> ExtNextSteps)

\* Tables whose path stops before the third level: a list or a string where a
\* mapping is expected.
ExtShallow ==
   PyDict(
      "launch_strategies" :> PyDict(
         "New Startup/Product Launch" :> PyList(<< "EXT: one list for every launch" >>) @@
         "Funding Announcement" :> PyDict(
            "Raised under $1M" :> PyStr("see the funding playbook"))) @@
      "next_steps" :> PyDict(
         "Bootstrapping (No external funding)" :> PyDict(
            "Yes, we have an engaged community" :>
               PyList(<< "EXT 1. Ask the community" >>))))

\* The two keys present with a JSON null in place of the table.
ExtNull == PyDict("launch_strategies" :> PyNone @@ "next_steps" :> PyNone)

\* Complete paths whose leaf is an empty list.
ExtEmptyLeaf ==
   PyDict(
      "launch_strategies" :> PyDict(
         "New Startup/Product Launch" :> PyDict(
            "Raised $3M+" :> PyDict("Get Users or Customers" :> PyList(<< >>)))) @@
      "next_steps" :> PyDict(
         "Raised $3M+" :> PyDict(
            "Yes, we have an engaged community" :> PyDict(
               "Scaling & repeatable traction" :> PyList(<< >>)))))

Externals ==
   << PyNone, EmptyDict, ExtBoth, ExtOnlyLaunchStrategies, ExtOnlyNextSteps,
      ExtShallow, ExtNull, ExtEmptyLeaf >>

\* ------------------------------------------------------------------------
\* The forms generate_launch_plan is called with.
\* ------------------------------------------------------------------------
PlanMessagingTested ==
   { ":check: Yes, I've gotten direct feedback on my messaging",
     ":cross: No, I haven't tested it yet" }

PlanLaunchTypes ==
   { "New Startup/Product Launch",
     "Brand Repositioning (Rebrand or Pivot)",
     ":rocket: New Startup/Product Launch" }

PlanFundingStatuses ==
   { "Bootstrapping (No external funding)",
     "Raised $3M+",
     ":rocket: Bootstrapping (No external funding, self-funded)" }

PlanPrimaryGoals == { "Get Users or Customers", ":rocket: Get Users or Customers" }

PlanAudienceReadinesses ==
   { "Yes, we have an engaged community", ":cross: No, we're starting from scratch" }

PlanPostLaunchPriorities ==
   { "Scaling & repeatable traction", ":fire: Sustaining press & industry visibility" }

\* The values of external_strategies it is called with.
PlanExternals == << PyNone, ExtBoth, ExtShallow, ExtNull, ExtEmptyLeaf >>

PlanForms ==
   [ first_name : {"Ada"},
     startup_name : {"Acme"},
     messaging_tested : PlanMessagingTested,
     launch_type : PlanLaunchTypes,
     funding_status : PlanFundingStatuses,
     primary_goal : PlanPrimaryGoals,
     audience_readiness : PlanAudienceReadinesses,
     post_launch_priority : PlanPostLaunchPriorities,
     industry : {"SaaS"},
     email : {"ada@acme.io"} ]

\* ------------------------------------------------------------------------
\* State
\* ------------------------------------------------------------------------
VARIABLES
   fn,                      \* the function called on its own, "none" before
   args,                    \* its arguments
   ret,                     \* its outcome: the value returned or the exception
   pc,                      \* position of the running generate_launch_plan
   form_data,               \* its argument form_data
   external_strategies,     \* its argument external_strategies
   messaging_advice,        \* its locals, Unset until assigned
   standard_strategies,
   recommended_strategies,
   standard_next_steps,
   next_steps,
   milestone_suggestions,
   plan,                    \* the plan it returned, PyNone before
   exc,                     \* the exception that left it, "none" otherwise
   ai_log,                  \* the invocations of the AI collaborator, in order
   ai_outcome,              \* how the latest invocation ended
   active,                  \* of two interleaved calls, the one that runs (0: none)
   other,                   \* the suspended one of the two: its frame
   inputs,                  \* the arguments the two calls were made with
   step,                    \* st.session_state.step
   session_form_data,       \* st.session_state.form_data
   generated_plan,          \* st.session_state.generated_plan
   email_sent,              \* st.session_state.email_sent
   show_calendar,           \* st.session_state.show_calendar
   selected,                \* step 9's choice while on_generate_plan runs
   passed,                  \* the steps whose next action was accepted
   notice,                  \* what the latest handler displayed
   email_log                \* the answers the email sender gave to the latest press
                            \* of the send button

unitVars == << fn, args, ret >>

localVars == << messaging_advice, standard_strategies, recommended_strategies,
                standard_next_steps, next_steps, milestone_suggestions >>

planVars == << pc, form_data, external_strategies, localVars, plan, exc, ai_log, ai_outcome >>

\* The frame of a call of generate_launch_plan: its position, arguments,
\* locals and result.
Frame ==
   [ pc |-> pc, form_data |-> form_data, external_strategies |-> external_strategies,
     messaging_advice |-> messaging_advice, standard_strategies |-> standard_strategies,
     recommended_strategies |-> recommended_strategies,
     standard_next_steps |-> standard_next_steps, next_steps |-> next_steps,
     milestone_suggestions |-> milestone_suggestions, plan |-> plan, exc |-> exc,
     ai_log |-> ai_log, ai_outcome |-> ai_outcome ]

switchVars == << active, other, inputs >>

sessionVars == << step, session_form_data, generated_plan, email_sent, show_calendar,
                 selected, passed, notice, email_log >>

\* What a statement of the engine leaves alone.
outerVars == << switchVars, sessionVars >>

vars == << unitVars, planVars, outerVars >>

NoOutcome == [kind |-> "none", value |-> PyNone]

\* The frame before a call.
NoFrame ==
   [ pc |-> "idle", form_data |-> PyNone, external_strategies |-> PyNone,
     messaging_advice |-> Unset, standard_strategies |-> Unset,
     recommended_strategies |-> Unset, standard_next_steps |-> Unset,
     next_steps |-> Unset, milestone_suggestions |-> Unset, plan |-> PyNone,
     exc |-> "none", ai_log |-> << >>, ai_outcome |-> NoOutcome ]

\* Python's None in a field of the form that otherwise holds a str.
NoneStr == "<None>"

\* The form of a new session, and of a session after reset_form.
InitialFormData ==
   [ first_name |-> "",
     startup_name |-> "",
     messaging_tested |-> NoneStr,
     launch_type |-> NoneStr,
     funding_status |-> NoneStr,
     primary_goal |-> NoneStr,
     audience_readiness |-> NoneStr,
     post_launch_priority |-> NoneStr,
     industry |-> NoneStr,
     email |-> "" ]

Init ==
   /\ fn = "none"
   /\ args = << >>
   /\ ret = Value(PyNone)
   /\ pc = "idle"
   /\ form_data = PyNone
   /\ external_strategies = PyNone
   /\ messaging_advice = Unset
   /\ standard_strategies = Unset
   /\ recommended_strategies = Unset
   /\ standard_next_steps = Unset
   /\ next_steps = Unset
   /\ milestone_suggestions = Unset
   /\ plan = PyNone
   /\ exc = "none"
   /\ ai_log = << >>
   /\ ai_outcome = NoOutcome
   /\ active = 0
   /\ other = NoFrame
   /\ inputs = << >>
   /\ step = 1
   /\ session_form_data = InitialFormData
   /\ generated_plan = PyNone
   /\ email_sent = FALSE
   /\ show_calendar = FALSE
   /\ selected = ""
   /\ passed = {}
   /\ notice = "none"
   /\ email_log = << >>

\* ------------------------------------------------------------------------
\* The functions called on their own
\* ------------------------------------------------------------------------
CallGetStandardStrategies ==
   /\ pc = "idle" /\ fn = "none"
   /\ \E lt \in LaunchTypes, fs \in FundingStatuses, pg \in PrimaryGoals,
         i \in DOMAIN Externals :
         /\ fn' = "get_standard_strategies"
         /\ args' = [launch_type |-> lt, funding_status |-> fs, primary_goal |-> pg,
                     external_strategies |-> Externals[i]]
         /\ ret' = get_standard_strategies(lt, fs, pg, Externals[i])
   /\ UNCHANGED planVars
   /\ UNCHANGED outerVars

CallGetStandardNextSteps ==
   /\ pc = "idle" /\ fn = "none"
   /\ \E fs \in FundingStatuses, ar \in AudienceReadinesses, pp \in PostLaunchPriorities,
         i \in DOMAIN Externals :
         /\ fn' = "get_standard_next_steps"
         /\ args' = [funding_status |-> fs, audience_readiness |-> ar,
                     post_launch_priority |-> pp, external_strategies |-> Externals[i]]
         /\ ret' = get_standard_next_steps(fs, ar, pp, Externals[i])
   /\ UNCHANGED planVars
   /\ UNCHANGED outerVars

CallGenerateMilestoneSuggestions ==
   /\ pc = "idle" /\ fn = "none"
   /\ \E lt \in LaunchTypes, fs \in FundingStatuses :
         /\ fn' = "generate_milestone_suggestions"
         /\ args' = [launch_type |-> lt, funding_status |-> fs]
         /\ ret' = Value(generate_milestone_suggestions(lt, fs))
   /\ UNCHANGED planVars
   /\ UNCHANGED outerVars

\* Mutant of CallGenerateLaunchPlan: the body starts at the resolver, the
\* messaging advice is not asked for first.
CallGenerateLaunchPlan_StrategiesFirst ==
   /\ pc = "idle" /\ fn = "none"
   /\ \E form \in PlanForms, i \in DOMAIN PlanExternals :
         /\ form_data' = form
         /\ external_strategies' = PlanExternals[i]
   /\ pc' = "standard_strategies"
   /\ UNCHANGED << unitVars, localVars, plan, exc, ai_log, ai_outcome >>
   /\ UNCHANGED outerVars

\* ------------------------------------------------------------------------
\* generate_launch_plan, statement by statement
\* ------------------------------------------------------------------------
CallGenerateLaunchPlan ==
   /\ pc = "idle" /\ fn = "none"
   /\ \E form \in PlanForms, i \in DOMAIN PlanExternals :
         /\ form_data' = form
         /\ external_strategies' = PlanExternals[i]
   /\ pc' = "messaging_advice"
   /\ UNCHANGED << unitVars, localVars, plan, exc, ai_log, ai_outcome >>
   /\ UNCHANGED outerVars

\* Mutant of MessagingAdvice: the advice is asked for under another field of
\* the form, form_data['launch_type'].
MessagingAdvice_WrongField ==
   /\ pc = "messaging_advice"
   /\ \E outcome \in AiTextOutcomes :
         /\ messaging_advice' =
               generate_ai_messaging_advice(form_data.launch_type, outcome)
         /\ ai_outcome' = outcome
         /\ ai_log' = Append(ai_log, [call |-> "messaging_advice",
                                      ok |-> outcome.kind = "ok"])
   /\ pc' = "standard_strategies"
   /\ UNCHANGED << unitVars, form_data, external_strategies, standard_strategies,
                   recommended_strategies, standard_next_steps, next_steps,
                   milestone_suggestions, plan, exc >>
   /\ UNCHANGED outerVars

\* messaging_advice = generate_ai_messaging_advice(form_data['messaging_tested'])
MessagingAdvice ==
   /\ pc = "messaging_advice"
   /\ \E outcome \in AiTextOutcomes :
         /\ messaging_advice' =
               generate_ai_messaging_advice(form_data.messaging_tested, outcome)
         /\ ai_outcome' = outcome
         /\ ai_log' = Append(ai_log, [call |-> "messaging_advice",
                                      ok |-> outcome.kind = "ok"])
   /\ pc' = "standard_strategies"
   /\ UNCHANGED << unitVars, form_data, external_strategies, standard_strategies,
                   recommended_strategies, standard_next_steps, next_steps,
                   milestone_suggestions, plan, exc >>
   /\ UNCHANGED outerVars

\* Mutant of StandardStrategies: the resolved strategies are kept in a place
\* the calls share, and a call finding them there does not resolve its own.
StandardStrategies_Cached ==
   /\ pc = "standard_strategies"
   /\ LET r == IF other.standard_strategies.t /= "unset"
               THEN Value(other.standard_strategies)
               ELSE get_standard_strategies(form_data.launch_type,
                                            form_data.funding_status,
                                            form_data.primary_goal, external_strategies)
      IN  IF r.exc = "none"
          THEN /\ standard_strategies' = r.value
               /\ pc' = "recommended_strategies"
               /\ exc' = exc
          ELSE /\ standard_strategies' = standard_strategies
               /\ pc' = "raised"
               /\ exc' = r.exc
   /\ UNCHANGED << unitVars, form_data, external_strategies, messaging_advice,
                   recommended_strategies, standard_next_steps, next_steps,
                   milestone_suggestions, plan, ai_log, ai_outcome >>
   /\ UNCHANGED outerVars

\* standard_strategies = get_standard_strategies(...); an exception of the
\* callee leaves generate_launch_plan.
StandardStrategies ==
   /\ pc = "standard_strategies"
   /\ LET r == get_standard_strategies(form_data.launch_type, form_data.funding_status,
                                       form_data.primary_goal, external_strategies)
      IN  IF r.exc = "none"
          THEN /\ standard_strategies' = r.value
               /\ pc' = "recommended_strategies"
               /\ exc' = exc
          ELSE /\ standard_strategies' = standard_strategies
               /\ pc' = "raised"
               /\ exc' = r.exc
   /\ UNCHANGED << unitVars, form_data, external_strategies, messaging_advice,
                   recommended_strategies, standard_next_steps, next_steps,
                   milestone_suggestions, plan, ai_log, ai_outcome >>
   /\ UNCHANGED outerVars

\* Mutant of RecommendedStrategies: the fallback handed to the collaborator is
\* the generic default list, not standard_strategies.
RecommendedStrategies_DefaultFallback ==
   /\ pc = "recommended_strategies"
   /\ \E outcome \in AiListOutcomes :
         /\ recommended_strategies' =
               generate_ai_strategies(form_data, DefaultStrategies, outcome)
         /\ ai_outcome' = outcome
         /\ ai_log' = Append(ai_log, [call |-> "strategies", ok |-> outcome.kind = "ok"])
   /\ pc' = "standard_next_steps"
   /\ UNCHANGED << unitVars, form_data, external_strategies, messaging_advice,
                   standard_strategies, standard_next_steps, next_steps,
                   milestone_suggestions, plan, exc >>
   /\ UNCHANGED outerVars

\* Mutant of RecommendedStrategies: the AI's strategies are merged with the
\* fallback list instead of replacing it.
RecommendedStrategies_Merged ==
   /\ pc = "recommended_strategies"
   /\ \E outcome \in AiListOutcomes :
         /\ recommended_strategies' =
               IF outcome.kind = "ok" /\ standard_strategies.t = "list"
               THEN PyList(outcome.value.v \o standard_strategies.v)
               ELSE generate_ai_strategies(form_data, standard_strategies, outcome)
         /\ ai_outcome' = outcome
         /\ ai_log' = Append(ai_log, [call |-> "strategies", ok |-> outcome.kind = "ok"])
   /\ pc' = "standard_next_steps"
   /\ UNCHANGED << unitVars, form_data, external_strategies, messaging_advice,
                   standard_strategies, standard_next_steps, next_steps,
                   milestone_suggestions, plan, exc >>
   /\ UNCHANGED outerVars

\* recommended_strategies = generate_ai_strategies(form_data, fallback_strategies=...)
RecommendedStrategies ==
   /\ pc = "recommended_strategies"
   /\ \E outcome \in AiListOutcomes :
         /\ recommended_strategies' =
               generate_ai_strategies(form_data, standard_strategies, outcome)
         /\ ai_outcome' = outcome
         /\ ai_log' = Append(ai_log, [call |-> "strategies", ok |-> outcome.kind = "ok"])
   /\ pc' = "standard_next_steps"
   /\ UNCHANGED << unitVars, form_data, external_strategies, messaging_advice,
                   standard_strategies, standard_next_steps, next_steps,
                   milestone_suggestions, plan, exc >>
   /\ UNCHANGED outerVars

\* standard_next_steps = get_standard_next_steps(...)
StandardNextSteps ==
   /\ pc = "standard_next_steps"
   /\ LET r == get_standard_next_steps(form_data.funding_status,
                                       form_data.audience_readiness,
                                       form_data.post_launch_priority, external_strategies)
      IN  IF r.exc = "none"
          THEN /\ standard_next_steps' = r.value
               /\ pc' = "next_steps"
               /\ exc' = exc
          ELSE /\ standard_next_steps' = standard_next_steps
               /\ pc' = "raised"
               /\ exc' = r.exc
   /\ UNCHANGED << unitVars, form_data, external_strategies, messaging_advice,
                   standard_strategies, recommended_strategies, next_steps,
                   milestone_suggestions, plan, ai_log, ai_outcome >>
   /\ UNCHANGED outerVars

\* next_steps = generate_ai_next_steps(form_data, fallback_steps=...)
NextSteps ==
   /\ pc = "next_steps"
   /\ \E outcome \in AiListOutcomes :
         /\ next_steps' = generate_ai_next_steps(form_data, standard_next_steps, outcome)
         /\ ai_outcome' = outcome
         /\ ai_log' = Append(ai_log, [call |-> "next_steps", ok |-> outcome.kind = "ok"])
   /\ pc' = "milestone_suggestions"
   /\ UNCHANGED << unitVars, form_data, external_strategies, messaging_advice,
                   standard_strategies, recommended_strategies, standard_next_steps,
                   milestone_suggestions, plan, exc >>
   /\ UNCHANGED outerVars

\* Mutant of MilestoneSuggestions: the basic milestones are a list shared by
\* the calls and extended in place, so a call made after another has built its
\* milestones starts from that call's list.
MilestoneSuggestions_SharedList ==
   /\ pc = "milestone_suggestions"
   /\ milestone_suggestions' =
         IF other.pc \in { "plan", "returned" }
         THEN other.milestone_suggestions
                 \o type_specific_milestones(form_data.launch_type)
                 \o funding_specific_milestones(form_data.funding_status)
         ELSE generate_milestone_suggestions(form_data.launch_type,
                                             form_data.funding_status)
   /\ pc' = "plan"
   /\ UNCHANGED << unitVars, form_data, external_strategies, messaging_advice,
                   standard_strategies, recommended_strategies, standard_next_steps,
                   next_steps, plan, exc, ai_log, ai_outcome >>
   /\ UNCHANGED outerVars

\* milestone_suggestions = generate_milestone_suggestions(...)
MilestoneSuggestions ==
   /\ pc = "milestone_suggestions"
   /\ milestone_suggestions' =
         generate_milestone_suggestions(form_data.launch_type, form_data.funding_status)
   /\ pc' = "plan"
   /\ UNCHANGED << unitVars, form_data, external_strategies, messaging_advice,
                   standard_strategies, recommended_strategies, standard_next_steps,
                   next_steps, plan, exc, ai_log, ai_outcome >>
   /\ UNCHANGED outerVars

\* plan = {...}; return plan
ReturnPlan ==
   /\ pc = "plan"
   /\ plan' = [ first_name |-> form_data.first_name,
                startup_name |-> form_data.startup_name,
                messaging_advice |-> messaging_advice,
                launch_summary |-> [ launch_type |-> form_data.launch_type,
                                     funding_status |-> form_data.funding_status,
                                     primary_goal |-> form_data.primary_goal ],
                recommended_strategies |-> recommended_strategies,
                next_steps |-> next_steps,
                milestone_suggestions |-> milestone_suggestions ]
   /\ pc' = "returned"
   /\ UNCHANGED << unitVars, form_data, external_strategies, localVars, exc,
                   ai_log, ai_outcome >>
   /\ UNCHANGED outerVars

Next ==
   \/ CallGetStandardStrategies
   \/ CallGetStandardNextSteps
   \/ CallGenerateMilestoneSuggestions
   \/ CallGenerateLaunchPlan
   \/ MessagingAdvice
   \/ StandardStrategies
   \/ RecommendedStrategies
   \/ StandardNextSteps
   \/ NextSteps
   \/ MilestoneSuggestions
   \/ ReturnPlan

Spec == Init /\ [][Next]_vars

\* ------------------------------------------------------------------------
\* Two calls of generate_launch_plan, interleaved
\* ------------------------------------------------------------------------
\* The arguments of the two calls: a form under the tables' keys without
\* external data, and a form under the wizard's labels with external data.
TwoInputs ==
   << [ form_data |->
           [ first_name |-> "Ada",
             startup_name |-> "Acme",
             messaging_tested |-> ":check: Yes, I've gotten direct feedback on my messaging",
             launch_type |-> "New Startup/Product Launch",
             funding_status |-> "Bootstrapping (No external funding)",
             primary_goal |-> "Get Users or Customers",
             audience_readiness |-> "Yes, we have an engaged community",
             post_launch_priority |-> "Scaling & repeatable traction",
             industry |-> "SaaS",
             email |-> "ada@acme.io" ],
        external_strategies |-> PyNone ],
      [ form_data |->
           [ first_name |-> "Bo",
             startup_name |-> "Birch",
             messaging_tested |-> ":cross: No, I haven't tested it yet",
             launch_type |-> ":rocket: New Startup/Product Launch",
             funding_status |-> ":rocket: Bootstrapping (No external funding, self-funded)",
             primary_goal |-> ":rocket: Get Users or Customers",
             audience_readiness |-> ":cross: No, we're starting from scratch",
             post_launch_priority |-> ":fire: Sustaining press & industry visibility",
             industry |-> "AI/ML",
             email |-> "bo@birch.dev" ],
        external_strategies |-> ExtBoth ] >>

\* Two calls are made, with the same arguments or with different ones (which
\* of two different calls is named first makes no difference); the first
\* starts to run, the second waits at its first statement.
CallGenerateLaunchPlanTwice ==
   /\ pc = "idle" /\ fn = "none" /\ active = 0
   /\ \E i \in DOMAIN TwoInputs, j \in DOMAIN TwoInputs :
         /\ i <= j
         /\ inputs' = << TwoInputs[i], TwoInputs[j] >>
         /\ form_data' = TwoInputs[i].form_data
         /\ external_strategies' = TwoInputs[i].external_strategies
         /\ other' = [ NoFrame EXCEPT !.pc = "messaging_advice",
                                      !.form_data = TwoInputs[j].form_data,
                                      !.external_strategies =
                                         TwoInputs[j].external_strategies ]
   /\ active' = 1
   /\ pc' = "messaging_advice"
   /\ UNCHANGED << unitVars, localVars, plan, exc, ai_log, ai_outcome, sessionVars >>

\* Between two statements the running call is suspended and the other one
\* resumes where it was.
Switch ==
   /\ active \in {1, 2}
   /\ active' = 3 - active
   /\ other' = Frame
   /\ pc' = other.pc
   /\ form_data' = other.form_data
   /\ external_strategies' = other.external_strategies
   /\ messaging_advice' = other.messaging_advice
   /\ standard_strategies' = other.standard_strategies
   /\ recommended_strategies' = other.recommended_strategies
   /\ standard_next_steps' = other.standard_next_steps
   /\ next_steps' = other.next_steps
   /\ milestone_suggestions' = other.milestone_suggestions
   /\ plan' = other.plan
   /\ exc' = other.exc
   /\ ai_log' = other.ai_log
   /\ ai_outcome' = other.ai_outcome
   /\ UNCHANGED << unitVars, inputs, sessionVars >>

NextTwo ==
   \/ CallGenerateLaunchPlanTwice
   \/ Switch
   \/ MessagingAdvice
   \/ StandardStrategies
   \/ RecommendedStrategies
   \/ StandardNextSteps
   \/ NextSteps
   \/ MilestoneSuggestions
   \/ ReturnPlan

SpecTwo == Init /\ [][NextTwo]_vars

\* ------------------------------------------------------------------------
\* Vocabulary of the properties
\* ------------------------------------------------------------------------
\* table is a mapping that holds the complete three-level path k1, k2, k3.
HasPath(table, k1, k2, k3) ==
   /\ HasKey(table, k1)
   /\ HasKey(table.v[k1], k2)
   /\ HasKey(table.v[k1].v[k2], k3)

Leaf(table, k1, k2, k3) == table.v[k1].v[k2].v[k3]

\* The external data holds the complete path under its key top.
ExternalHasPath(ext, top, k1, k2, k3) ==
   HasKey(ext, top) /\ HasPath(ext.v[top], k1, k2, k3)

ExternalLeaf(ext, top, k1, k2, k3) == Leaf(ext.v[top], k1, k2, k3)

\* A key of the path is missing from a mapping of the table, at the first,
\* second or third level.
MissesKey(table, k1, k2, k3) ==
   /\ table.t = "dict"
   /\ \/ ~HasKey(table, k1)
      \/ /\ table.v[k1].t = "dict"
         /\ \/ ~HasKey(table.v[k1], k2)
            \/ /\ table.v[k1].v[k2].t = "dict"
               /\ ~HasKey(table.v[k1].v[k2], k3)

\* The external data does not contain the path: there is no data, no table
\* under the key top, or a key of the path is missing from that table.
ExternalMissesPath(ext, top, k1, k2, k3) ==
   \/ ~Truthy(ext)
   \/ ~HasKey(ext, top)
   \/ MissesKey(ext.v[top], k1, k2, k3)

IsNonEmptyList(x) == x.t = "list" /\ Len(x.v) > 0

\* The AI invocation named call has been made and failed.
AiFailed(call) == \E i \in DOMAIN ai_log : ai_log[i].call = call /\ ~ai_log[i].ok

\* ------------------------------------------------------------------------
\* Properties
\* ------------------------------------------------------------------------
\* C1: override precedence.  When external_strategies['launch_strategies']
\* holds the complete path (launch_type, funding_status, primary_goal),
\* get_standard_strategies returns exactly that leaf, whether or not the
\* hardcoded table has the path too; likewise get_standard_next_steps with
\* external_strategies['next_steps'].
C1_OverridePrecedence ==
   /\ (/\ fn = "get_standard_strategies"
       /\ ExternalHasPath(args.external_strategies, "launch_strategies",
                          args.launch_type, args.funding_status, args.primary_goal))
      => ret = Value(ExternalLeaf(args.external_strategies, "launch_strategies",
                                  args.launch_type, args.funding_status, args.primary_goal))
   /\ (/\ fn = "get_standard_next_steps"
       /\ ExternalHasPath(args.external_strategies, "next_steps", args.funding_status,
                          args.audience_readiness, args.post_launch_priority))
      => ret = Value(ExternalLeaf(args.external_strategies, "next_steps", args.funding_status,
                                  args.audience_readiness, args.post_launch_priority))

\* A call whose path is in the external data and in the hardcoded table, with
\* different leaves, answered with the external leaf.
C1_Witness ==
   /\ fn = "get_standard_strategies"
   /\ ExternalHasPath(args.external_strategies, "launch_strategies",
                      args.launch_type, args.funding_status, args.primary_goal)
   /\ HasPath(strategies, args.launch_type, args.funding_status, args.primary_goal)
   /\ Leaf(strategies, args.launch_type, args.funding_status, args.primary_goal)
         /= ExternalLeaf(args.external_strategies, "launch_strategies",
                         args.launch_type, args.funding_status, args.primary_goal)
   /\ ret.exc = "none"
   /\ ret.value = PyList(<< "EXT: run a founder AMA", "EXT: open a waitlist" >>)

C4_ResolversNeverRaise ==
   fn \in {"get_standard_strategies", "get_standard_next_steps"} => ret.exc = "none"

\* C5: in every plan generate_launch_plan returns, recommended_strategies and
\* next_steps are non-empty lists, for every form, every external data and
\* every outcome of the AI collaborator.
C5_StrategiesAndStepsNeverEmpty ==
   pc = "returned" =>
      /\ IsNonEmptyList(plan.recommended_strategies)
      /\ IsNonEmptyList(plan.next_steps)

\* The names of the first n entries of a milestone list.
Names(milestones, n) == [i \in 1..n |-> milestones[i].name]

BaseNames ==
   << "Messaging Validation", "Content Creation Deadline", "Launch Day",
      "Post-Launch Analysis" >>

\* C6: for every launch type and funding status generate_milestone_suggestions
\* returns at least four entries, the first four being Messaging Validation,
\* Content Creation Deadline, Launch Day, Post-Launch Analysis in this order;
\* so does milestone_suggestions of every plan.
C6_BaseMilestonesFirst ==
   /\ fn = "generate_milestone_suggestions" =>
         /\ Len(ret.value) >= 4
         /\ Names(ret.value, 4) = BaseNames
   /\ pc = "returned" =>
         /\ Len(plan.milestone_suggestions) >= 4
         /\ Names(plan.milestone_suggestions, 4) = BaseNames

\* A plan with specific milestones after the four base ones.
C6_Witness ==
   /\ pc = "returned"
   /\ Len(plan.milestone_suggestions) = 7
   /\ Names(plan.milestone_suggestions, 4) = BaseNames
   /\ plan.milestone_suggestions[5].name = "Beta Testing"

\* The milestone lists a launch-type branch, resp. a funding branch, can assign.
TypeBranches == { << >> } \cup { LaunchTypeRules[i].milestones : i \in DOMAIN LaunchTypeRules }

FundingBranches ==
   { << >> } \cup { FundingStatusRules[i].milestones : i \in DOMAIN FundingStatusRules }

\* C7: the result of generate_milestone_suggestions is the base sequence, then
\* the milestones of one launch-type branch (or none), then those of one
\* funding branch (or none), every entry kept and in that order: nothing is
\* de-duplicated or sorted by timeframe.
C7_StraightConcatenation ==
   fn = "generate_milestone_suggestions" =>
      \E T \in TypeBranches, F \in FundingBranches :
         /\ ret.value = basic_milestones \o T \o F
         /\ Len(ret.value) = 4 + Len(T) + Len(F)

\* A result of eight entries in which two entries share a timeframe and a
\* funding milestone four weeks before launch follows a launch-type milestone
\* two weeks before launch.
C7_Witness ==
   /\ fn = "generate_milestone_suggestions"
   /\ Len(ret.value) = 8
   /\ ret.value[6].name = "Product Finalization"
   /\ ret.value[6].timeframe = "2 weeks before launch"
   /\ ret.value[2].timeframe = "2 weeks before launch"
   /\ ret.value[7].name = "PR Firm Briefing"
   /\ ret.value[7].timeframe = "4 weeks before launch"

\* The branches whose marker the label contains.
Matches(rules, text) == { i \in DOMAIN rules : Contains(text, rules[i].marker) }

\* The first specific milestone the wizard's launch-type option stands for.
OptionLaunchMilestone(option) ==
   CASE option = ":rocket: New Startup/Product Launch" -> "Beta Testing"
     [] option = ":repeat: Brand Repositioning (Rebrand or Pivot)" -> "Brand Assets Complete"
     [] option = ":moneybag: Funding Announcement" -> "Press Release Draft"
     [] option = ":loudspeaker: Major Partnership or Publicity Push" -> "Partnership Agreement"

\* The first specific milestone the wizard's funding option stands for.
OptionFundingMilestone(option) ==
   CASE option = ":rocket: Bootstrapping (No external funding, self-funded)"
           -> "Resource Allocation"
     [] option = ":seedling: Raised under $1M (Likely still raising, early-stage)"
           -> "Growth Metrics Setup"
     [] option = ":chart: Raised $1M-$3M (Have 12-18 months of runway)"
           -> "PR Firm Briefing"
     [] option = ":trophy: Raised $3M+ (Series A+; established growth strategy)"
           -> "Marketing Campaign Launch"

\* C8: for each launch-type option and each funding option of the wizard
\* exactly one launch-type marker and exactly one funding marker match, and
\* generate_milestone_suggestions appends the 2 milestones of that launch
\* type and the 1 or 2 milestones of that funding band: 7 or 8 entries.
C8_OptionsMatchOneCategory ==
   (/\ fn = "generate_milestone_suggestions"
    /\ args.launch_type \in LaunchTypeOptions
    /\ args.funding_status \in FundingStatusOptions)
   => /\ Cardinality(Matches(LaunchTypeRules, args.launch_type)) = 1
      /\ Cardinality(Matches(FundingStatusRules, args.funding_status)) = 1
      /\ Len(ret.value) \in {7, 8}
      /\ Names(ret.value, 4) = BaseNames
      /\ ret.value[5].name = OptionLaunchMilestone(args.launch_type)
      /\ ret.value[7].name = OptionFundingMilestone(args.funding_status)
      /\ \E T \in TypeBranches, F \in FundingBranches :
            /\ Len(T) = 2
            /\ Len(F) \in {1, 2}
            /\ ret.value = basic_milestones \o T \o F

\* The partnership option with the $3M+ option: eight entries.
C8_Witness ==
   /\ fn = "generate_milestone_suggestions"
   /\ args.launch_type = ":loudspeaker: Major Partnership or Publicity Push"
   /\ args.funding_status = ":trophy: Raised $3M+ (Series A+; established growth strategy)"
   /\ Len(ret.value) = 8
   /\ ret.value[6].name = "Joint Marketing Plan"
   /\ ret.value[8].name = "Industry Event Planning"

\* What the resolvers answer for the form and external data of the running
\* generate_launch_plan.
ResolvedStrategies ==
   get_standard_strategies(form_data.launch_type, form_data.funding_status,
                           form_data.primary_goal, external_strategies)

ResolvedNextSteps ==
   get_standard_next_steps(form_data.funding_status, form_data.audience_readiness,
                           form_data.post_launch_priority, external_strategies)

\* C9: AI fallback value.  When the AI collaborator raises, times out or
\* answers with an empty result for the strategies (resp. the next steps),
\* recommended_strategies (resp. next_steps) is, right after the invocation and
\* in the plan returned, the value the resolver returned for the form and the
\* external data, unchanged.
C9_AiFallbackValue ==
   /\ (pc = "standard_next_steps" /\ ai_outcome.kind \in {"raises", "times out", "empty"})
      => recommended_strategies = ResolvedStrategies.value
   /\ (pc = "milestone_suggestions" /\ ai_outcome.kind \in {"raises", "times out", "empty"})
      => next_steps = ResolvedNextSteps.value
   /\ (pc = "returned" /\ AiFailed("strategies"))
      => plan.recommended_strategies = ResolvedStrategies.value
   /\ (pc = "returned" /\ AiFailed("next_steps"))
      => plan.next_steps = ResolvedNextSteps.value

\* A plan returned after both invocations failed: the strategies are the
\* external leaf, the next steps the leaf of the hardcoded table.
C9_Witness ==
   /\ pc = "returned"
   /\ AiFailed("strategies")
   /\ AiFailed("next_steps")
   /\ ai_outcome.kind = "times out"
   /\ plan.recommended_strategies = PyList(<< "EXT: run a founder AMA", "EXT: open a waitlist" >>)
   /\ plan.next_steps = PyList(<< "EXT 1. Double down on referrals" >>)

\* A statement of generate_launch_plan after the call.
PlanStatement ==
   \/ MessagingAdvice
   \/ StandardStrategies
   \/ RecommendedStrategies
   \/ StandardNextSteps
   \/ NextSteps
   \/ MilestoneSuggestions
   \/ ReturnPlan

\* C10: AI failure is never surfaced.  generate_launch_plan is left by an
\* exception only when a resolver raised it, never because an invocation of
\* the AI collaborator failed: after a failed invocation the next statement
\* runs, and a plan is returned whose messaging_advice, when that invocation
\* failed, is the canned sentence for form_data['messaging_tested'].
C10_AiFailureNotSurfaced ==
   /\ pc = "raised" =>
         /\ exc = "TypeError"
         /\ ResolvedStrategies.exc = "TypeError" \/ ResolvedNextSteps.exc = "TypeError"
   /\ pc \in {"messaging_advice", "standard_strategies", "recommended_strategies",
              "standard_next_steps", "next_steps", "milestone_suggestions", "plan"}
         => ENABLED PlanStatement
   /\ (pc \notin {"idle", "messaging_advice"} /\ AiFailed("messaging_advice"))
         => messaging_advice = CannedMessagingAdvice(form_data.messaging_tested)
   /\ (pc = "returned" /\ AiFailed("messaging_advice"))
         => plan.messaging_advice = CannedMessagingAdvice(form_data.messaging_tested)

\* A plan returned although the three invocations failed.
C10_Witness ==
   /\ pc = "returned"
   /\ AiFailed("messaging_advice")
   /\ AiFailed("strategies")
   /\ AiFailed("next_steps")
   /\ ai_outcome.kind = "malformed"
   /\ form_data.messaging_tested = ":cross: No, I haven't tested it yet"
   /\ plan.messaging_advice = "Messaging advice for: :cross: No, I haven't tested it yet"

\* The AI invocation named call has been made and answered with a result.
AiSucceeded(call) == \E i \in DOMAIN ai_log : ai_log[i].call = call /\ ai_log[i].ok

\* The items of a Python list.
Items(x) == { x.v[i] : i \in DOMAIN x.v }

\* C11: AI success replaces the fallback entirely.  When the AI collaborator
\* answers with a well-formed non-empty list for the strategies (resp. the next
\* steps), recommended_strategies (resp. next_steps) is exactly that list right
\* after the invocation, and the plan returned holds one of the AI's lists with
\* no item of the list the resolver returned (no AI item is a table item, so
\* any common item would have been merged in).
C11_AiSuccessReplacesFallback ==
   /\ (pc = "standard_next_steps" /\ ai_outcome.kind = "ok")
      => recommended_strategies = ai_outcome.value
   /\ (pc = "milestone_suggestions" /\ ai_outcome.kind = "ok")
      => next_steps = ai_outcome.value
   /\ (pc = "returned" /\ AiSucceeded("strategies"))
      => /\ plan.recommended_strategies \in AiListResults
         /\ Items(plan.recommended_strategies) \cap Items(ResolvedStrategies.value) = {}
   /\ (pc = "returned" /\ AiSucceeded("next_steps"))
      => /\ plan.next_steps \in AiListResults
         /\ Items(plan.next_steps) \cap Items(ResolvedNextSteps.value) = {}

\* A plan returned after both invocations answered, for a form whose path is
\* in the hardcoded tables: the plan holds the AI's lists, not the leaves.
C11_Witness ==
   /\ pc = "returned"
   /\ AiSucceeded("strategies")
   /\ AiSucceeded("next_steps")
   /\ external_strategies = PyNone
   /\ HasPath(strategies, form_data.launch_type, form_data.funding_status,
              form_data.primary_goal)
   /\ HasPath(next_steps_table, form_data.funding_status,
              form_data.audience_readiness, form_data.post_launch_priority)
   /\ Len(plan.recommended_strategies.v) = 1
   /\ plan.next_steps = ai_outcome.value

\* The three invocations of the AI collaborator generate_launch_plan makes.
AiCalls == { "messaging_advice", "strategies", "next_steps" }

\* How many times the invocation named call has been made.
CallsOf(call) == Cardinality({ i \in DOMAIN ai_log : ai_log[i].call = call })

\* The call of generate_launch_plan is over: it returned or raised.
CallOver == pc \in { "returned", "raised" }

\* C12: exactly one invocation each.  No invocation of the AI collaborator is
\* ever made twice, and when the call of generate_launch_plan is over the
\* collaborator has been invoked once for the messaging advice, once for the
\* strategies and once for the next steps, whatever the outcomes.
C12_EachAiCallExactlyOnce ==
   /\ \A call \in AiCalls : CallsOf(call) <= 1
   /\ CallOver => \A call \in AiCalls : CallsOf(call) = 1

\* The invocations made so far, in the order they were made.
CallOrder == [ i \in DOMAIN ai_log |-> ai_log[i].call ]

IsPrefix(s, t) == Len(s) <= Len(t) /\ s = SubSeq(t, 1, Len(s))

\* The order the body of generate_launch_plan makes the invocations in.
CodeCallOrder == << "messaging_advice", "strategies", "next_steps" >>

\* C13 as stated: the plan returned was built by invocations made in the order
\* strategies, next steps, messaging advice.
C13_StrategiesNextStepsMessaging ==
   pc = "returned" => CallOrder = << "strategies", "next_steps", "messaging_advice" >>

\* C13, amended: the invocations are made one after the other in the order
\* messaging advice, strategies, next steps.  At every point of the call the
\* invocations made so far are the beginning of that order, and the plan
\* returned was built by the three of them.
C13_MessagingStrategiesNextSteps ==
   /\ IsPrefix(CallOrder, CodeCallOrder)
   /\ pc = "returned" => CallOrder = CodeCallOrder
   /\ pc = "standard_strategies" => CallOrder = << "messaging_advice" >>
   /\ pc = "standard_next_steps" => CallOrder = << "messaging_advice", "strategies" >>

\* The strategies have been asked for and answered, the next steps not yet:
\* the messaging advice was asked for before them and failed.
C13_Witness ==
   /\ pc = "standard_next_steps"
   /\ CallOrder = << "messaging_advice", "strategies" >>
   /\ AiFailed("messaging_advice")
   /\ ai_outcome.kind = "ok"
   /\ Len(recommended_strategies.v) = 2

\* A local of generate_launch_plan has been assigned.
Assigned(x) == x.t /= "unset"

\* C14: the fixed order of the steps.  A call of generate_launch_plan that is
\* over has performed the seven steps and returned the plan; an enhancement is
\* made only after its resolver returned, the strategies before the next
\* steps, and the value an enhancement falls back to is the value its resolver
\* returned.
C14_FixedStepOrder ==
   /\ CallOver =>
         /\ pc = "returned"
         /\ CallOrder = CodeCallOrder
         /\ Assigned(standard_strategies) /\ Assigned(recommended_strategies)
         /\ Assigned(standard_next_steps) /\ Assigned(next_steps)
   /\ Assigned(recommended_strategies) => Assigned(standard_strategies)
   /\ Assigned(standard_next_steps) => Assigned(recommended_strategies)
   /\ Assigned(next_steps) => Assigned(standard_next_steps)
   /\ pc = "recommended_strategies" =>
         /\ CallOrder = << "messaging_advice" >>
         /\ standard_strategies = ResolvedStrategies.value
   /\ pc = "next_steps" =>
         /\ CallOrder = << "messaging_advice", "strategies" >>
         /\ standard_next_steps = ResolvedNextSteps.value
   /\ (pc = "standard_next_steps" /\ ai_outcome.kind /= "ok")
         => recommended_strategies = standard_strategies
   /\ (pc = "milestone_suggestions" /\ ai_outcome.kind /= "ok")
         => next_steps = standard_next_steps

\* What the hardcoded table and the default alone give for a path.
TableOrDefault(table, default, k1, k2, k3) ==
   IF HasPath(table, k1, k2, k3) THEN Leaf(table, k1, k2, k3) ELSE default

\* C18: missing override data degrades silently.  When external_strategies is
\* None or has no 'launch_strategies' key, get_standard_strategies returns,
\* without raising, what the hardcoded table and the default alone give; the
\* same for get_standard_next_steps and the 'next_steps' key.  The absence of
\* one key leaves the override under the other in force, and a plan generated
\* without external data is never ended by an exception.
C18_MissingOverrideDegrades ==
   /\ (/\ fn = "get_standard_strategies"
       /\ ~HasKey(args.external_strategies, "launch_strategies"))
      => ret = Value(TableOrDefault(strategies, DefaultStrategies, args.launch_type,
                                    args.funding_status, args.primary_goal))
   /\ (/\ fn = "get_standard_next_steps"
       /\ ~HasKey(args.external_strategies, "next_steps"))
      => ret = Value(TableOrDefault(next_steps_table, DefaultNextSteps,
                                    args.funding_status, args.audience_readiness,
                                    args.post_launch_priority))
   /\ (/\ fn = "get_standard_strategies"
       /\ ~HasKey(args.external_strategies, "next_steps")
       /\ ExternalHasPath(args.external_strategies, "launch_strategies",
                          args.launch_type, args.funding_status, args.primary_goal))
      => ret = Value(ExternalLeaf(args.external_strategies, "launch_strategies",
                                  args.launch_type, args.funding_status,
                                  args.primary_goal))
   /\ (/\ fn = "get_standard_next_steps"
       /\ ~HasKey(args.external_strategies, "launch_strategies")
       /\ ExternalHasPath(args.external_strategies, "next_steps", args.funding_status,
                          args.audience_readiness, args.post_launch_priority))
      => ret = Value(ExternalLeaf(args.external_strategies, "next_steps",
                                  args.funding_status, args.audience_readiness,
                                  args.post_launch_priority))
   /\ (pc /= "idle" /\ external_strategies = PyNone) => pc /= "raised"

\* External data with the 'next_steps' key only: the strategies of a path of
\* the hardcoded table are the table's leaf.
C18_Witness ==
   /\ fn = "get_standard_strategies"
   /\ args.external_strategies = ExtOnlyNextSteps
   /\ args.launch_type = "Funding Announcement"
   /\ args.funding_status = "Raised under $1M"
   /\ HasPath(strategies, args.launch_type, args.funding_status, args.primary_goal)
   /\ ret.exc = "none"
   /\ ret.value = Leaf(strategies, args.launch_type, args.funding_status,
                       args.primary_goal)

\* text.split(" ", 1)[1]: what follows the first space of a text that has one.
AfterFirstSpace(text) ==
   LET i == CHOOSE k \in 1..Len(text) :
               /\ SubSeq(text, k, k) = " "
               /\ \A j \in 1..(k - 1) : SubSeq(text, j, j) /= " "
   IN  SubSeq(text, i + 1, Len(text))

\* A label without its emoji prefix (an emoji is spelled ":name:").
WithoutEmoji(label) ==
   IF Len(label) > 0 /\ SubSeq(label, 1, 1) = ":" /\ Contains(label, " ")
   THEN AfterFirstSpace(label)
   ELSE label

\* A label without its parenthetical: what precedes the first " (".
WithoutParenthetical(label) ==
   IF Contains(label, " (")
   THEN LET i == CHOOSE k \in 1..Len(label) :
                    /\ SubSeq(label, k, k + 1) = " ("
                    /\ \A j \in 1..(k - 1) : SubSeq(label, j, j + 1) /= " ("
        IN  SubSeq(label, 1, i - 1)
   ELSE label

\* Label D is key K, or K decorated with an emoji prefix and/or with a
\* parenthetical (added or extended).
Decorates(D, K) ==
   \/ D = K
   \/ WithoutParenthetical(WithoutEmoji(D)) = WithoutParenthetical(K)

\* The keys among keys that label D stands for.
KeysOf(D, keys) == { K \in keys : Decorates(D, K) }

\* C17: label decoration is tolerated.  Without external data, a resolver and
\* the milestone builder called with decorated labels return what they return
\* for the table keys the labels decorate; so does generate_launch_plan when
\* the three AI invocations fail.
C17_DecorationTolerated ==
   /\ (fn = "get_standard_strategies" /\ args.external_strategies = PyNone) =>
         \A K1 \in KeysOf(args.launch_type, LaunchTypeKeys),
            K2 \in KeysOf(args.funding_status, FundingStatusKeys),
            K3 \in KeysOf(args.primary_goal, PrimaryGoalKeys) :
            ret = get_standard_strategies(K1, K2, K3, PyNone)
   /\ (fn = "get_standard_next_steps" /\ args.external_strategies = PyNone) =>
         \A K1 \in KeysOf(args.funding_status, FundingStatusKeys),
            K2 \in KeysOf(args.audience_readiness, AudienceReadinessKeys),
            K3 \in KeysOf(args.post_launch_priority, PostLaunchPriorityKeys) :
            ret = get_standard_next_steps(K1, K2, K3, PyNone)
   /\ fn = "generate_milestone_suggestions" =>
         \A K1 \in KeysOf(args.launch_type, LaunchTypeKeys),
            K2 \in KeysOf(args.funding_status, FundingStatusKeys) :
            ret = Value(generate_milestone_suggestions(K1, K2))
   /\ (/\ pc = "returned"
       /\ external_strategies = PyNone
       /\ \A call \in AiCalls : AiFailed(call)) =>
         \A K1 \in KeysOf(form_data.launch_type, LaunchTypeKeys),
            K2 \in KeysOf(form_data.funding_status, FundingStatusKeys),
            K3 \in KeysOf(form_data.primary_goal, PrimaryGoalKeys),
            K4 \in KeysOf(form_data.audience_readiness, AudienceReadinessKeys),
            K5 \in KeysOf(form_data.post_launch_priority, PostLaunchPriorityKeys) :
            /\ plan.recommended_strategies = get_standard_strategies(K1, K2, K3, PyNone).value
            /\ plan.next_steps = get_standard_next_steps(K2, K4, K5, PyNone).value
            /\ plan.milestone_suggestions = generate_milestone_suggestions(K1, K2)

\* In the log of a call, the invocation named call failed.
FailedIn(log, call) == \E i \in DOMAIN log : log[i].call = call /\ ~log[i].ok

\* Every invocation of a call that returned yielded the fallback.
DeterministicPath(frame) ==
   /\ frame.pc = "returned"
   /\ \A call \in AiCalls : FailedIn(frame.ai_log, call)

PlanAlone(input, frame, p) ==
   LET form == input.form_data
       ext == input.external_strategies
   IN  /\ p.first_name = form.first_name
       /\ p.startup_name = form.startup_name
       /\ p.launch_summary = [ launch_type |-> form.launch_type,
                               funding_status |-> form.funding_status,
                               primary_goal |-> form.primary_goal ]
       /\ IF FailedIn(frame.ai_log, "messaging_advice")
          THEN p.messaging_advice = CannedMessagingAdvice(form.messaging_tested)
          ELSE p.messaging_advice \in AiTextResults
       /\ IF FailedIn(frame.ai_log, "strategies")
          THEN p.recommended_strategies =
                  get_standard_strategies(form.launch_type, form.funding_status,
                                          form.primary_goal, ext).value
          ELSE p.recommended_strategies \in AiListResults
       /\ IF frame.ai_outcome.kind /= "ok"
          THEN p.next_steps =
                  get_standard_next_steps(form.funding_status, form.audience_readiness,
                                          form.post_launch_priority, ext).value
          ELSE p.next_steps = frame.ai_outcome.value
       /\ p.milestone_suggestions =
             generate_milestone_suggestions(form.launch_type, form.funding_status)

\* C16: reentrancy.  While two calls of generate_launch_plan are interleaved
\* at statement boundaries, the arguments of each stay as they were passed,
\* and each call that returns returns the plan it returns when made alone with
\* its arguments and its AI outcomes.  (The hardcoded tables are built by each
\* call for itself and never assigned to.)
C16_Reentrancy ==
   active /= 0 =>
      /\ form_data = inputs[active].form_data
      /\ external_strategies = inputs[active].external_strategies
      /\ other.form_data = inputs[3 - active].form_data
      /\ other.external_strategies = inputs[3 - active].external_strategies
      /\ pc = "returned" => PlanAlone(inputs[active], Frame, plan)
      /\ other.pc = "returned" => PlanAlone(inputs[3 - active], other, other.plan)

\* The second call has returned its plan while the first, made with other
\* arguments, is suspended between two of its statements.
C16_Witness ==
   /\ active = 2
   /\ inputs[1] /= inputs[2]
   /\ pc = "returned"
   /\ other.pc = "standard_next_steps"
   /\ FailedIn(ai_log, "strategies")
   /\ plan.first_name = "Bo"
   /\ plan.recommended_strategies = PyList(<< "EXT: ship a public roadmap" >>)
   /\ other.recommended_strategies = other.standard_strategies
   /\ Len(other.standard_strategies.v) = 3

\* ------------------------------------------------------------------------
\* The wizard of streamlit_app.py: the session and its handlers
\* ------------------------------------------------------------------------
\* What the visitor may type into the three text inputs of step 1.
WizardFirstNames == { "", "Ada" }

WizardStartupNames == { "", "Acme" }

WizardEmails == { "", "ada", "ada@acme", "ada.acme", "ada@acme.io" }

\* The options of steps 2 to 7 the visitor chooses among.
WizardMessagingOptions ==
   { ":check: Yes, I've gotten direct feedback on my messaging",
     ":cross: No, I haven't tested it yet" }

WizardLaunchTypeOptions ==
   { ":rocket: New Startup/Product Launch", ":moneybag: Funding Announcement" }

WizardFundingStatusOptions ==
   { ":rocket: Bootstrapping (No external funding, self-funded)",
     ":trophy: Raised $3M+ (Series A+; established growth strategy)" }

WizardPrimaryGoalOptions == { ":rocket: Get Users or Customers", ":moneybag: Attract Investors" }

WizardAudienceReadinessOptions == { ":check: Yes, we have an engaged community" }

WizardPostLaunchPriorityOptions == { ":fire: Sustaining press & industry visibility" }

\* The options of step 8: an emoji of industry_emojis and an industry.
IndustryOptions == { ":computer: SaaS", ":robot: AI/ML" }

\* The options of step 9.
CalendarOptions ==
   { ":check: Yes, help me plan my launch timeline",
     ":next: Skip calendar scheduling for now" }

\* data/strategies.json: absent, unreadable, or holding a JSON value.
StrategyFiles ==
   << [ exists |-> FALSE, readable |-> FALSE, content |-> PyNone ],
      [ exists |-> TRUE, readable |-> FALSE, content |-> PyNone ],
      [ exists |-> TRUE, readable |-> TRUE, content |-> ExtBoth ],
      [ exists |-> TRUE, readable |-> TRUE, content |-> ExtNull ] >>

\* load_strategies(): the content of the file, None when there is no file and
\* when opening or parsing it raised.
load_strategies(file) ==
   IF file.exists /\ file.readable THEN file.content ELSE PyNone

\* bool(selected) for what option_selector or st.text_input returned.
Selected(x) == x \notin { NoneStr, "" }

\* step_navigation draws the next button; a disabled button calls nothing.
step_navigation(next_disabled) == ~next_disabled

\* A handler of the wizard runs between two calls of generate_launch_plan.
HandlerMayRun == pc = "idle" /\ fn = "none" /\ active = 0

\* Mutant of ShowsStep: main() shows the form of the step whether or not a
\* plan has been generated.
ShowsStep_IgnoresPlan(n) == HandlerMayRun /\ step = n

\* main() shows step n of the form.
ShowsStep(n) == HandlerMayRun /\ generated_plan = PyNone /\ step = n

\* main() shows the results page, resp. the calendar page.
ShowsResults == HandlerMayRun /\ generated_plan /= PyNone /\ ~show_calendar

ShowsCalendar == HandlerMayRun /\ generated_plan /= PyNone /\ show_calendar

engineVars == << unitVars, planVars, switchVars >>

\* main: progress = (step - 1) / 8, as the fraction << numerator, denominator >>.
progress == << step - 1, 8 >>

\* Mutant of Step1Next: the email is stored without looking for "@" and ".".
Step1Next_NoEmailCheck ==
   /\ ShowsStep(1)
   /\ \E first_name \in WizardFirstNames, email \in WizardEmails,
         startup_name \in WizardStartupNames :
         LET next_disabled == ~Selected(first_name) \/ ~Selected(email)
                              \/ ~Selected(startup_name)
         IN  /\ step_navigation(next_disabled)
             /\ session_form_data' =
                   [ session_form_data EXCEPT !.first_name = first_name,
                                              !.startup_name = startup_name,
                                              !.email = email ]
             /\ step' = step + 1
             /\ passed' = passed \cup { 1 }
             /\ notice' = "none"
   /\ UNCHANGED << generated_plan, email_sent, show_calendar, selected, engineVars >>
   /\ UNCHANGED email_log

\* Mutant of Step1Next: the three fields are stored before the email is
\* looked at, so a rejected email is kept in the form.
Step1Next_StoresBeforeCheck ==
   /\ ShowsStep(1)
   /\ \E first_name \in WizardFirstNames, email \in WizardEmails,
         startup_name \in WizardStartupNames :
         LET next_disabled == ~Selected(first_name) \/ ~Selected(email)
                              \/ ~Selected(startup_name)
         IN  /\ step_navigation(next_disabled)
             /\ session_form_data' =
                   [ session_form_data EXCEPT !.first_name = first_name,
                                              !.startup_name = startup_name,
                                              !.email = email ]
             /\ IF ~Contains(email, "@") \/ ~Contains(email, ".")
                THEN /\ notice' = "Please enter a valid email address."
                     /\ UNCHANGED << step, passed >>
                ELSE /\ step' = step + 1
                     /\ passed' = passed \cup { 1 }
                     /\ notice' = "none"
   /\ UNCHANGED << generated_plan, email_sent, show_calendar, selected, engineVars >>
   /\ UNCHANGED email_log

\* step_1.on_next
Step1Next ==
   /\ ShowsStep(1)
   /\ \E first_name \in WizardFirstNames, email \in WizardEmails,
         startup_name \in WizardStartupNames :
         LET next_disabled == ~Selected(first_name) \/ ~Selected(email)
                              \/ ~Selected(startup_name)
         IN  /\ step_navigation(next_disabled)
             /\ IF ~Contains(email, "@") \/ ~Contains(email, ".")
                THEN /\ notice' = "Please enter a valid email address."
                     /\ UNCHANGED << step, session_form_data, passed >>
                ELSE /\ session_form_data' =
                           [ session_form_data EXCEPT !.first_name = first_name,
                                                      !.startup_name = startup_name,
                                                      !.email = email ]
                     /\ step' = step + 1
                     /\ passed' = passed \cup { 1 }
                     /\ notice' = "none"
   /\ UNCHANGED << generated_plan, email_sent, show_calendar, selected, engineVars >>
   /\ UNCHANGED email_log

\* on_next of a step that asks for one option: the option is stored in the
\* field and the wizard moves to the next step.
OptionNext(n, field, options) ==
   /\ \E choice \in options \cup { NoneStr } :
         /\ step_navigation(~Selected(choice))
         /\ session_form_data' = [ session_form_data EXCEPT ![field] = choice ]
   /\ step' = step + 1
   /\ passed' = passed \cup { n }
   /\ notice' = "none"
   /\ UNCHANGED << generated_plan, email_sent, show_calendar, selected, engineVars >>
   /\ UNCHANGED email_log

\* step_2.on_next
Step2Next ==
   /\ ShowsStep(2)
   /\ OptionNext(2, "messaging_tested", WizardMessagingOptions)

\* step_3.on_next
Step3Next ==
   /\ ShowsStep(3)
   /\ OptionNext(3, "launch_type", WizardLaunchTypeOptions)

\* step_4.on_next
Step4Next ==
   /\ ShowsStep(4)
   /\ OptionNext(4, "funding_status", WizardFundingStatusOptions)

\* step_5.on_next
Step5Next ==
   /\ ShowsStep(5)
   /\ OptionNext(5, "primary_goal", WizardPrimaryGoalOptions)

\* step_6.on_next
Step6Next ==
   /\ ShowsStep(6)
   /\ OptionNext(6, "audience_readiness", WizardAudienceReadinessOptions)

\* step_7.on_next
Step7Next ==
   /\ ShowsStep(7)
   /\ OptionNext(7, "post_launch_priority", WizardPostLaunchPriorityOptions)

\* step_8.on_next: the industry is the option without its emoji.
Step8Next ==
   /\ ShowsStep(8)
   /\ \E choice \in IndustryOptions \cup { NoneStr } :
         /\ step_navigation(~Selected(choice))
         /\ session_form_data' =
               [ session_form_data EXCEPT !.industry =
                    IF Selected(choice)
                    THEN IF Contains(choice, " ") THEN AfterFirstSpace(choice) ELSE choice
                    ELSE NoneStr ]
   /\ step' = step + 1
   /\ passed' = passed \cup { 8 }
   /\ notice' = "none"
   /\ UNCHANGED << generated_plan, email_sent, show_calendar, selected, engineVars >>
   /\ UNCHANGED email_log

\* The back button step_navigation draws on steps 2 to 9.
Back ==
   /\ HandlerMayRun /\ generated_plan = PyNone
   /\ step \in 2..9
   /\ step' = step - 1
   /\ notice' = "none"
   /\ UNCHANGED << session_form_data, generated_plan, email_sent, show_calendar,
                   selected, passed, engineVars >>
   /\ UNCHANGED email_log

\* Mutant of GenerateMyLaunchPlan: the handler of step 9 increases step like
\* the next handlers of the other steps.
GenerateMyLaunchPlan_Advances ==
   /\ ShowsStep(9)
   /\ \E choice \in CalendarOptions \cup { NoneStr }, i \in DOMAIN StrategyFiles :
         /\ step_navigation(~Selected(choice))
         /\ selected' = choice
         /\ external_strategies' = load_strategies(StrategyFiles[i])
         /\ notice' = IF StrategyFiles[i].exists /\ ~StrategyFiles[i].readable
                      THEN "Error loading strategies" ELSE "none"
   /\ form_data' = session_form_data
   /\ pc' = "messaging_advice"
   /\ step' = step + 1
   /\ UNCHANGED << unitVars, localVars, plan, exc, ai_log, ai_outcome, switchVars,
                   session_form_data, generated_plan, email_sent, show_calendar,
                   passed >>
   /\ UNCHANGED email_log

\* step_9.on_generate_plan, up to the call: load_strategies() and the call of
\* generate_launch_plan with the form of the session.
GenerateMyLaunchPlan ==
   /\ ShowsStep(9)
   /\ \E choice \in CalendarOptions \cup { NoneStr }, i \in DOMAIN StrategyFiles :
         /\ step_navigation(~Selected(choice))
         /\ selected' = choice
         /\ external_strategies' = load_strategies(StrategyFiles[i])
         /\ notice' = IF StrategyFiles[i].exists /\ ~StrategyFiles[i].readable
                      THEN "Error loading strategies" ELSE "none"
   /\ form_data' = session_form_data
   /\ pc' = "messaging_advice"
   /\ UNCHANGED << unitVars, localVars, plan, exc, ai_log, ai_outcome, switchVars,
                   step, session_form_data, generated_plan, email_sent, show_calendar,
                   passed >>
   /\ UNCHANGED email_log

\* The frame of the call is left: its variables are as before the call.
FrameLeft ==
   /\ pc' = "idle"
   /\ form_data' = PyNone
   /\ external_strategies' = PyNone
   /\ messaging_advice' = Unset
   /\ standard_strategies' = Unset
   /\ recommended_strategies' = Unset
   /\ standard_next_steps' = Unset
   /\ next_steps' = Unset
   /\ milestone_suggestions' = Unset
   /\ plan' = PyNone
   /\ exc' = "none"
   /\ ai_log' = << >>
   /\ ai_outcome' = NoOutcome

\* step_9.on_generate_plan, after the call returned: the plan and the calendar
\* preference are stored.
StorePlan ==
   /\ pc = "returned" /\ Selected(selected)
   /\ generated_plan' = plan
   /\ show_calendar' = (selected = ":check: Yes, help me plan my launch timeline")
   /\ selected' = ""
   /\ notice' = "none"
   /\ FrameLeft
   /\ UNCHANGED << unitVars, switchVars, step, session_form_data, email_sent, passed >>
   /\ UNCHANGED email_log

\* Mutant of GenerationRaised: the handler catches the exception and stores
\* what had been built of the plan.
GenerationRaised_StoresPartial ==
   /\ pc = "raised" /\ Selected(selected)
   /\ generated_plan' = [ first_name |-> form_data.first_name,
                          startup_name |-> form_data.startup_name,
                          messaging_advice |-> messaging_advice ]
   /\ show_calendar' = (selected = ":check: Yes, help me plan my launch timeline")
   /\ selected' = ""
   /\ notice' = exc
   /\ FrameLeft
   /\ UNCHANGED << unitVars, switchVars, step, session_form_data, email_sent, passed >>
   /\ UNCHANGED email_log

\* step_9.on_generate_plan, when the call raised: the exception leaves the
\* handler before the assignment, the session is as it was.
GenerationRaised ==
   /\ pc = "raised" /\ Selected(selected)
   /\ selected' = ""
   /\ notice' = exc
   /\ FrameLeft
   /\ UNCHANGED << unitVars, switchVars, step, session_form_data, generated_plan,
                   email_sent, show_calendar, passed >>
   /\ UNCHANGED email_log

\* display_results: "View & Edit Launch Timeline"
ViewTimeline ==
   /\ ShowsResults
   /\ show_calendar' = TRUE
   /\ notice' = "none"
   /\ UNCHANGED << step, session_form_data, generated_plan, email_sent, selected,
                   passed, engineVars >>
   /\ UNCHANGED email_log

\* display_calendar: "Back to Launch Plan"
BackToLaunchPlan ==
   /\ ShowsCalendar
   /\ show_calendar' = FALSE
   /\ notice' = "none"
   /\ UNCHANGED << step, session_form_data, generated_plan, email_sent, selected,
                   passed, engineVars >>
   /\ UNCHANGED email_log

\* display_calendar: "Continue"
Continue ==
   /\ ShowsCalendar
   /\ show_calendar' = FALSE
   /\ notice' = "none"
   /\ UNCHANGED << step, session_form_data, generated_plan, email_sent, selected,
                   passed, engineVars >>
   /\ UNCHANGED email_log

\* The two messages of the send button.
EmailSentTo(address) ==
   "Your personalized launch plan has been sent to " \o address \o "!"

EmailError == "There was an error sending your email. Please try again."

\* A send button that asks the sender again after a failure.
SendEmail_Retry ==
   /\ ShowsResults
   /\ \E first, second \in BOOLEAN :
         /\ email_log' = IF first THEN << first >> ELSE << first, second >>
         /\ IF first \/ second
            THEN /\ email_sent' = TRUE
                 /\ notice' = EmailSentTo(session_form_data.email)
            ELSE /\ email_sent' = email_sent
                 /\ notice' = EmailError
   /\ UNCHANGED << step, session_form_data, generated_plan, show_calendar, selected,
                   passed, engineVars >>

\* display_results: "Send to My Email".  send_email_to_user answers with
\* success or failure.
SendEmail ==
   /\ ShowsResults
   /\ \E success \in BOOLEAN :
         /\ email_log' = << success >>
         /\ IF success
            THEN /\ email_sent' = TRUE
                 /\ notice' = EmailSentTo(session_form_data.email)
            ELSE /\ email_sent' = email_sent
                 /\ notice' = EmailError
   /\ UNCHANGED << step, session_form_data, generated_plan, show_calendar, selected,
                   passed, engineVars >>

\* Mutant of reset_form: the answers of the form are kept for the next plan.
reset_form_KeepsForm ==
   /\ ShowsResults
   /\ generated_plan' = PyNone
   /\ email_sent' = FALSE
   /\ show_calendar' = FALSE
   /\ step' = 1
   /\ passed' = {}
   /\ notice' = "none"
   /\ UNCHANGED << session_form_data, selected, email_log, engineVars >>

\* reset_form, from the "Reset" button of display_results.
reset_form ==
   /\ ShowsResults
   /\ session_form_data' = InitialFormData
   /\ generated_plan' = PyNone
   /\ email_sent' = FALSE
   /\ show_calendar' = FALSE
   /\ step' = 1
   /\ passed' = {}
   /\ notice' = "none"
   /\ UNCHANGED << selected, email_log, engineVars >>

NextWizard ==
   \/ Step1Next
   \/ Step2Next
   \/ Step3Next
   \/ Step4Next
   \/ Step5Next
   \/ Step6Next
   \/ Step7Next
   \/ Step8Next
   \/ Back
   \/ GenerateMyLaunchPlan
   \/ MessagingAdvice
   \/ StandardStrategies
   \/ RecommendedStrategies
   \/ StandardNextSteps
   \/ NextSteps
   \/ MilestoneSuggestions
   \/ ReturnPlan
   \/ StorePlan
   \/ GenerationRaised
   \/ ViewTimeline
   \/ BackToLaunchPlan
   \/ Continue
   \/ SendEmail
   \/ reset_form

SpecWizard == Init /\ [][NextWizard]_vars

\* The fields of a plan, and those of its launch summary.
PlanFields ==
   { "first_name", "startup_name", "messaging_advice", "launch_summary",
     "recommended_strategies", "next_steps", "milestone_suggestions" }

LaunchSummaryFields == { "launch_type", "funding_status", "primary_goal" }

\* p holds every field of a plan.
CompletePlan(p) ==
   /\ DOMAIN p = PlanFields
   /\ DOMAIN p.launch_summary = LaunchSummaryFields
   /\ p.recommended_strategies.t = "list"
   /\ p.next_steps.t = "list"

\* One step of the session, as C19 wants it.
AllOrNothingStep ==
   /\ generated_plan = PyNone \/ CompletePlan(generated_plan)
   /\ generated_plan' = PyNone \/ CompletePlan(generated_plan')
   /\ pc \notin { "idle", "returned" } =>
         /\ generated_plan' = generated_plan
         /\ show_calendar' = show_calendar
   /\ (generated_plan' /= generated_plan /\ generated_plan' /= PyNone) =>
         /\ pc = "returned"
         /\ generated_plan' = plan

\* C19: all-or-nothing assembly.  In every state of the session generated_plan
\* is None or a plan holding all its fields; the only plan ever stored is the
\* one generate_launch_plan returned; and while the call runs, and when it is
\* left by an exception, generated_plan and show_calendar keep their values.
C19_AllOrNothing == [][AllOrNothingStep]_vars

\* The call raised at step 9 and the handler has been left: no plan is
\* stored, the calendar is not shown, the form is still at step 9.
C19_Witness ==
   /\ pc = "idle"
   /\ notice = "TypeError"
   /\ step = 9
   /\ generated_plan = PyNone
   /\ ~show_calendar

\* The form generate_launch_plan needs: names and email filled in, the email
\* with "@" and ".", and the six selections made.
ValidForm(form) ==
   /\ Selected(form.first_name)
   /\ Selected(form.startup_name)
   /\ Contains(form.email, "@") /\ Contains(form.email, ".")
   /\ form.messaging_tested /= NoneStr
   /\ form.launch_type /= NoneStr
   /\ form.funding_status /= NoneStr
   /\ form.primary_goal /= NoneStr
   /\ form.audience_readiness /= NoneStr
   /\ form.post_launch_priority /= NoneStr

\* C20: validation precedes the engine.  Whenever generate_launch_plan runs
\* for the wizard its form_data is the form of the session and is valid, and
\* the wizard is at step 9; the wizard is at a step only after the next action
\* of every earlier step was accepted.
C20_ValidationPrecedesEngine ==
   /\ pc /= "idle" =>
         /\ form_data = session_form_data
         /\ ValidForm(form_data)
         /\ step = 9
   /\ \A n \in 1..(step - 1) : n \in passed
   /\ step = 9 => ValidForm(session_form_data)

\* generate_launch_plan has just been called from step 9 with the form the
\* eight steps filled in.
C20_Witness ==
   /\ pc = "messaging_advice"
   /\ step = 9
   /\ passed = 1..8
   /\ form_data.email = "ada@acme.io"
   /\ form_data.first_name = "Ada"
   /\ form_data.launch_type = ":moneybag: Funding Announcement"
   /\ form_data.industry = "AI/ML"

\* One step of the session, as C21 wants it.
PlanKeptStep ==
   /\ generated_plan /= PyNone =>
         /\ pc = "idle" /\ pc' = "idle"
         /\ \/ generated_plan' = generated_plan
            \/ /\ generated_plan' = PyNone
               /\ step' = 1
               /\ session_form_data' = InitialFormData
               /\ ~email_sent' /\ ~show_calendar'
   /\ (generated_plan = PyNone /\ generated_plan' /= PyNone) =>
         /\ pc = "returned"
         /\ generated_plan' = plan

\* C21: the plan is kept until reset.  While generated_plan holds a plan no
\* handler changes it and generate_launch_plan is not called; it changes only
\* to None, by the handler that puts the whole session back to its initial
\* values (reset_form); a plan is stored only when there is none, so at most
\* one plan is generated between two resets.
C21_PlanKeptUntilReset == [][PlanKeptStep]_vars

\* A plan is stored, the email has been sent and the calendar has been opened
\* from the results page: the results-page handlers have run on this plan.
C21_Witness ==
   /\ generated_plan /= PyNone
   /\ email_sent
   /\ show_calendar
   /\ notice = "none"
   /\ generated_plan.first_name = "Ada"
   /\ Len(generated_plan.recommended_strategies.v) = 3


\* A press of the send button: the results page is shown and the handler
\* leaves one of the two email messages.
SendPressed ==
   /\ ShowsResults
   /\ notice' \in {EmailSentTo(session_form_data.email), EmailError}

\* One step of the session, as C22 wants it.
EmailStep ==
   /\ SendPressed => Len(email_log') = 1
   /\ (email_sent' /\ ~email_sent) =>
         /\ SendPressed
         /\ email_log'[Len(email_log')] = TRUE
   /\ (SendPressed /\ email_log'[Len(email_log')] = FALSE) =>
         /\ email_sent' = email_sent
         /\ generated_plan' = generated_plan
   /\ generated_plan' = PyNone => ~email_sent'

\* C22: each press of the send button asks the email sender exactly once;
\* email_sent becomes True only by a press whose call returned success, a
\* press whose call failed leaves email_sent and generated_plan as they
\* were, and email_sent is False whenever generated_plan is None.
C22_EmailOutcome ==
   /\ generated_plan = PyNone => ~email_sent
   /\ [][EmailStep]_vars

\* The email has been sent once, and a later press has failed: email_sent
\* is still True and the plan is still there.
C22_Witness ==
   /\ generated_plan /= PyNone
   /\ email_sent
   /\ email_log = << FALSE >>
   /\ notice = EmailError


\* The milestones the rules give a text: those of the first rule, in the
\* order of the chain, whose marker the text contains; none when no marker
\* is contained.
FirstMatch(rules, text) ==
   IF Matches(rules, text) = {} THEN << >>
   ELSE LET first == CHOOSE i \in Matches(rules, text) :
                        \A j \in 1..(i - 1) : j \notin Matches(rules, text)
        IN  rules[first].milestones

\* C23: for every launch_type and funding_status string
\* generate_milestone_suggestions raises nothing and returns the 4 base
\* milestones followed by the milestones of at most one launch-type category
\* and at most one funding band: nothing for a dimension whose string
\* contains no marker (4 entries when neither does), only those of the first
\* marker in the order of the chain when it contains several, and never more
\* than 8 entries.
C23_AtMostOneBranchEach ==
   fn = "generate_milestone_suggestions" =>
      /\ ret.exc = "none"
      /\ ret.value = basic_milestones
                        \o FirstMatch(LaunchTypeRules, args.launch_type)
                        \o FirstMatch(FundingStatusRules, args.funding_status)
      /\ Len(ret.value) <= 8
      /\ (/\ Matches(LaunchTypeRules, args.launch_type) = {}
          /\ Matches(FundingStatusRules, args.funding_status) = {})
         => ret.value = basic_milestones /\ Len(ret.value) = 4
      /\ \A i \in 5..Len(ret.value) :
            \/ \E j \in DOMAIN LaunchTypeRules :
                  /\ Contains(args.launch_type, LaunchTypeRules[j].marker)
                  /\ \E k \in DOMAIN LaunchTypeRules[j].milestones :
                        LaunchTypeRules[j].milestones[k] = ret.value[i]
            \/ \E j \in DOMAIN FundingStatusRules :
                  /\ Contains(args.funding_status, FundingStatusRules[j].marker)
                  /\ \E k \in DOMAIN FundingStatusRules[j].milestones :
                        FundingStatusRules[j].milestones[k] = ret.value[i]

\* A launch type that contains two markers, "Partnership" and "Funding
\* Announcement", with a funding status that contains none: the two
\* milestones of the funding announcement, the earlier branch of the chain,
\* are the only ones appended.
C23_Witness ==
   /\ fn = "generate_milestone_suggestions"
   /\ args.launch_type = "Partnership & Funding Announcement"
   /\ args.funding_status = "Grant funded"
   /\ Cardinality(Matches(LaunchTypeRules, args.launch_type)) = 2
   /\ Matches(FundingStatusRules, args.funding_status) = {}
   /\ Len(ret.value) = 6
   /\ ret.value[5].name = "Press Release Draft"


\* One step of the session, as C24 wants it: a step taken while step 1 is
\* shown is the next action of step 1 with some entered values.
RejectedEmailStep ==
   ShowsStep(1) =>
      \E first_name \in WizardFirstNames, email \in WizardEmails,
         startup_name \in WizardStartupNames :
         /\ first_name /= "" /\ email /= "" /\ startup_name /= ""
         /\ IF Contains(email, "@") /\ Contains(email, ".")
            THEN /\ step' = 2
                 /\ session_form_data'.first_name = first_name
                 /\ session_form_data'.startup_name = startup_name
                 /\ session_form_data'.email = email
            ELSE /\ step' = 1
                 /\ notice' = "Please enter a valid email address."
                 /\ session_form_data'.first_name = session_form_data.first_name
                 /\ session_form_data'.startup_name = session_form_data.startup_name
                 /\ session_form_data'.email = session_form_data.email
         /\ \A field \in DOMAIN session_form_data \ {"first_name", "startup_name", "email"} :
               session_form_data'[field] = session_form_data[field]

\* C24: the next action of step 1 with an email that lacks "@" or "." leaves
\* step at 1 and the stored first_name, startup_name and email as they were;
\* with an email that contains both it stores the three fields and moves to
\* step 2.  So an email stored by a step to step 2 contains both characters.
C24_RejectedEmailKeepsState ==
   [][ /\ RejectedEmailStep
       /\ (step = 1 /\ step' = 2) =>
             /\ Contains(session_form_data'.email, "@")
             /\ Contains(session_form_data'.email, ".")
       /\ (step = 1 /\ notice' = "Please enter a valid email address.") =>
             /\ step' = 1
             /\ session_form_data' = session_form_data ]_vars

\* Step 1 is shown again after its fields were stored, and an email without
\* "@" and "." has just been rejected: the stored email is still the valid one.
C24_Witness ==
   /\ step = 1
   /\ 1 \in passed
   /\ notice = "Please enter a valid email address."
   /\ session_form_data.first_name = "Ada"
   /\ session_form_data.startup_name = "Acme"
   /\ session_form_data.email = "ada@acme.io"


\* The wizard's counter is one of the 9 steps and the progress fraction lies
\* within 0 and 1.
StepInRange ==
   /\ step \in 1..9
   /\ 0 <= progress[1]
   /\ progress[1] <= progress[2]

\* One step of the session, as C25 wants it.
StepCounterStep ==
   /\ StepInRange'
   \* a handler of steps 1 to 8: the accepted next, the back button, or the
   \* rejection of step 1
   /\ (step \in 1..8 /\ ShowsStep(step)) =>
         \/ step' = step + 1
         \/ step' = step - 1 /\ session_form_data' = session_form_data
         \/ /\ step = 1 /\ step' = 1
            /\ notice' = "Please enter a valid email address."
   \* step rises only by such a handler, and by one
   /\ step' > step => (step \in 1..8 /\ ShowsStep(step) /\ step' = step + 1)
   \* the generate action of step 9, and the call it starts
   /\ (pc = "idle" /\ pc' /= "idle") => (step = 9 /\ step' = 9)
   /\ pc /= "idle" => step' = step
   /\ (generated_plan = PyNone /\ generated_plan' /= PyNone) => (step = 9 /\ step' = 9)

\* C25: step starts at 1 and stays within 1..9: each accepted next action of
\* steps 1 to 8 increases it by exactly 1, the generate action of step 9 and
\* the call it makes leave it at 9, and the progress value (step - 1) / 8
\* stays within 0 and 1.
C25_StepWithinWizard ==
   /\ step = 1
   /\ StepInRange
   /\ [][StepCounterStep]_vars

\* The plan has been generated from step 9 after the next actions of all of
\* steps 1 to 8 were accepted: step is still 9, the progress value is 1.
C25_Witness ==
   /\ step = 9
   /\ passed = 1..8
   /\ generated_plan /= PyNone
   /\ progress = << 8, 8 >>


\* The session is as the initialisation leaves it.
InitialSession ==
   /\ step = 1
   /\ session_form_data = InitialFormData
   /\ generated_plan = PyNone
   /\ ~email_sent
   /\ ~show_calendar

\* The calendar is shown only for a stored plan.
CalendarNeedsPlan == show_calendar => generated_plan /= PyNone

\* C26: reset_form, the only step that takes a stored plan away, leaves the
\* session as the initialisation does: step 1, the form fields at their
\* initial values (empty first_name, startup_name and email, None for the
\* selections and industry), generated_plan None, email_sent and
\* show_calendar False; and show_calendar is True only in states where
\* generated_plan is not None.
C26_ResetRestoresInitialSession ==
   /\ InitialSession
   /\ CalendarNeedsPlan
   /\ [][ /\ CalendarNeedsPlan'
          /\ (ShowsResults /\ generated_plan' = PyNone) => InitialSession' ]_vars

\* reset_form has run after a plan was generated from a filled form and its
\* email was sent: the session is the initial one again.
C26_Witness ==
   /\ InitialSession
   /\ email_log = << TRUE >>
   /\ passed = {}

====
